---- MODULE Spec2Model ----
(***************************************************************************)
(* The streaming plan parser (src/llmcompiler/output_parser.py) and the    *)
(* task fetching unit (src/llmcompiler/task_fetching.py) of the            *)
(* LLMCompiler.  Strings are sequences of one-character strings, so that   *)
(* chunk cuts, regular-expression matches and reference substitution work  *)
(* on the characters, as the code does.                                    *)
(***************************************************************************)
EXTENDS Integers, Sequences, FiniteSets, TLC

(***************************************************************************)
(* Bounds                                                                  *)
(***************************************************************************)
MaxTasks == 3
MaxParseLines == 2
MaxCuts == 1
MaxMessages == 1
MaxRefTasks == 2
MaxPieces == 2
MaxItems == 2

(***************************************************************************)
(* Characters and string helpers                                           *)
(***************************************************************************)
None == <<>>
Some(v) == <<v>>

NL == "\n"
Digits == {"0", "1", "2", "3", "4", "5", "6", "7", "8", "9"}
Letters == {"a", "b", "c", "d", "e", "f", "g", "h", "i", "j", "k", "l", "m",
            "n", "o", "p", "q", "r", "s", "t", "u", "v", "w", "x", "y", "z",
            "A", "B", "C", "D", "E", "F", "G", "H", "I", "J", "K", "L", "M",
            "N", "O", "P", "Q", "R", "S", "T", "U", "V", "W", "X", "Y", "Z"}
WordChars == Letters \cup Digits \cup {"_"}
Spaces == {" ", "\t", "\n", "\r"}

DigitVal(c) ==
    CASE c = "0" -> 0 [] c = "1" -> 1 [] c = "2" -> 2 [] c = "3" -> 3
      [] c = "4" -> 4 [] c = "5" -> 5 [] c = "6" -> 6 [] c = "7" -> 7
      [] c = "8" -> 8 [] c = "9" -> 9

DigitChar(d) ==
    CASE d = 0 -> "0" [] d = 1 -> "1" [] d = 2 -> "2" [] d = 3 -> "3"
      [] d = 4 -> "4" [] d = 5 -> "5" [] d = 6 -> "6" [] d = 7 -> "7"
      [] d = 8 -> "8" [] d = 9 -> "9"

\* int(s) for a non-empty string of decimal digits
RECURSIVE ParseInt(_)
ParseInt(s) ==
    IF Len(s) = 0 THEN 0
    ELSE 10 * ParseInt(SubSeq(s, 1, Len(s) - 1)) + DigitVal(s[Len(s)])

\* str(n) for a natural number
RECURSIVE IntToStr(_)
IntToStr(n) ==
    IF n < 10 THEN <<DigitChar(n)>>
    ELSE IntToStr(n \div 10) \o <<DigitChar(n % 10)>>

Drop(s, n) == SubSeq(s, n + 1, Len(s))
Take(s, n) == SubSeq(s, 1, n)

StartsWith(s, p) == Len(s) >= Len(p) /\ SubSeq(s, 1, Len(p)) = p

\* p occurs in s at position i
Occurs(s, p, i) == SubSeq(s, i, i + Len(p) - 1) = p

\* s.find(p) + 1: the first position where p occurs in s, 0 if there is none
IndexOf(s, p) ==
    IF \E i \in 1 .. (Len(s) - Len(p) + 1) : Occurs(s, p, i)
    THEN CHOOSE i \in 1 .. (Len(s) - Len(p) + 1) :
             Occurs(s, p, i) /\ \A j \in 1 .. (i - 1) : ~Occurs(s, p, j)
    ELSE 0

\* the length of the longest prefix of s whose characters are all in cs
SpanLen(s, cs) ==
    IF \A i \in 1 .. Len(s) : s[i] \in cs THEN Len(s)
    ELSE (CHOOSE i \in 1 .. Len(s) :
              s[i] \notin cs /\ \A j \in 1 .. (i - 1) : s[j] \in cs) - 1

\* "".join(parts)
RECURSIVE Join(_)
Join(parts) ==
    IF Len(parts) = 0 THEN <<>> ELSE Head(parts) \o Join(Tail(parts))

\* s.split("\n")
RECURSIVE SplitLines(_)
SplitAt(s, i) ==
    IF i = 0 THEN <<s>> ELSE <<Take(s, i - 1)>> \o SplitLines(Drop(s, i))

SplitLines(s) == SplitAt(s, IndexOf(s, <<NL>>))

\* s.strip()
RECURSIVE LStrip(_)
LStrip(s) == IF Len(s) > 0 /\ s[1] \in Spaces THEN LStrip(Tail(s)) ELSE s

RECURSIVE RStripSet(_, _)
RStripSet(s, cs) ==
    IF Len(s) > 0 /\ s[Len(s)] \in cs THEN RStripSet(Take(s, Len(s) - 1), cs) ELSE s

Strip(s) == RStripSet(LStrip(s), Spaces)

(***************************************************************************)
(* The patterns of output_parser.py                                        *)
(***************************************************************************)
S_Thought == <<"T", "h", "o", "u", "g", "h", "t", ":", " ">>
S_join == <<"j", "o", "i", "n">>
S_trip_planner == <<"t", "r", "i", "p", "_", "p", "l", "a", "n", "n", "e", "r">>
S_PerplexityAgent == <<"P", "e", "r", "p", "l", "e", "x", "i", "t", "y", "A", "g", "e", "n", "t">>
S_TwilioAgent == <<"T", "w", "i", "l", "i", "o", "A", "g", "e", "n", "t">>
S_info == <<"i", "n", "f", "o">>
S_query == <<"q", "u", "e", "r", "y">>
S_user_context == <<"u", "s", "e", "r", "_", "c", "o", "n", "t", "e", "x", "t">>
S_to_number == <<"t", "o", "_", "n", "u", "m", "b", "e", "r">>
S_message == <<"m", "e", "s", "s", "a", "g", "e">>

\* the longest prefix of s without a newline: what [^\n]* and .* match
LinePrefix(s) == Take(s, SpanLen(s, {s[i] : i \in 1 .. Len(s)} \ {NL}))

\* re.match(THOUGHT_PATTERN, line): None, or Some(group 1)
THOUGHT_PATTERN(line) ==
    IF StartsWith(line, S_Thought)
    THEN Some(LinePrefix(Drop(line, Len(S_Thought))))
    ELSE None

\* the position of the last c in seg
LastIndexOf(seg, c) ==
    CHOOSE i \in 1 .. Len(seg) : seg[i] = c /\ \A j \in (i + 1) .. Len(seg) : seg[j] # c

\* ACTION_PATTERN from "\((.*)\)" on: seg is the rest of the line after "("
AP_args(idx, tool_name, seg) ==
    IF \E i \in 1 .. Len(seg) : seg[i] = ")"
    THEN Some([idx |-> idx, tool_name |-> tool_name,
               args |-> Take(seg, LastIndexOf(seg, ")") - 1)])
    ELSE None

\* ACTION_PATTERN after "(\w+)": r4 is the text after the name
AP_paren(idx, tool_name, r4) ==
    IF Len(tool_name) >= 1 /\ StartsWith(r4, <<"(">>)
    THEN AP_args(idx, tool_name, LinePrefix(Drop(r4, 1)))
    ELSE None

\* ACTION_PATTERN after "(\d+)": r2 is the text after the digits
AP_name(idx, r2) ==
    IF Len(idx) >= 1 /\ StartsWith(r2, <<".", " ">>)
    THEN AP_paren(idx, Take(Drop(r2, 2), SpanLen(Drop(r2, 2), WordChars)),
                  Drop(r2, 2 + SpanLen(Drop(r2, 2), WordChars)))
    ELSE None

\* ACTION_PATTERN after "\n*": r1 is the text after the leading newlines
AP_idx(r1) == AP_name(Take(r1, SpanLen(r1, Digits)), Drop(r1, SpanLen(r1, Digits)))

\* re.match(ACTION_PATTERN, line): None, or Some of the groups idx, tool_name, args
ACTION_PATTERN(line) == AP_idx(Drop(line, SpanLen(line, {NL})))

\* ID_PATTERN after "\$\{?": brace is 1 if "{" matched, r the text after it,
\* nd the number of digits
ID_digits(brace, r, nd) ==
    IF nd >= 1
    THEN [len |-> 1 + brace + nd + (IF Len(r) > nd /\ r[nd + 1] = "}" THEN 1 ELSE 0),
          idx |-> ParseInt(Take(r, nd))]
    ELSE [len |-> 0, idx |-> 0]

ID_brace(s, brace) == ID_digits(brace, Drop(s, 1 + brace), SpanLen(Drop(s, 1 + brace), Digits))

\* the match of ID_PATTERN at the start of s: its length (0 if none) and index
MatchId(s) ==
    IF Len(s) >= 2 /\ s[1] = "$"
    THEN ID_brace(s, IF s[2] = "{" THEN 1 ELSE 0)
    ELSE [len |-> 0, idx |-> 0]

\* the non-overlapping matches of ID_PATTERN in s, left to right, with the
\* text between them: what re.findall and re.sub walk over
RECURSIVE ScanIds(_)
ScanFrom(s, m) ==
    IF m.len > 0
    THEN <<[ref |-> TRUE, text |-> Take(s, m.len), idx |-> m.idx]>> \o ScanIds(Drop(s, m.len))
    ELSE <<[ref |-> FALSE, text |-> <<s[1]>>, idx |-> 0]>> \o ScanIds(Tail(s))

ScanIds(s) == IF Len(s) = 0 THEN <<>> ELSE ScanFrom(s, MatchId(s))

IsRef(tok) == tok.ref
IdxOf(toks) == [i \in 1 .. Len(toks) |-> toks[i].idx]

\* re.findall(ID_PATTERN, s), as integers
FindIds(s) == IdxOf(SelectSeq(ScanIds(s), IsRef))

(***************************************************************************)
(* Argument values: a str or an int (the literals of the modelled plans),  *)
(* or a list of values                                                     *)
(***************************************************************************)
StrVal(s) == [t |-> "str", v |-> s]
IntVal(n) == [t |-> "int", v |-> n]
ListVal(items) == [t |-> "list", v |-> items]
\* a dict: the sequence of its entries, each a key k and a value v
DictVal(entries) == [t |-> "dict", v |-> entries]

\* repr of a str without escapes: double quotes if it holds a single quote only
Quoted(s) ==
    IF (\E i \in 1 .. Len(s) : s[i] = "'") /\ (\A i \in 1 .. Len(s) : s[i] # "\"")
    THEN <<"\"">> \o s \o <<"\"">>
    ELSE <<"'">> \o s \o <<"'">>

\* repr(value)
RECURSIVE Repr(_)
ReprItems(items) ==
    Join([i \in 1 .. Len(items) |->
             (IF i > 1 THEN <<",", " ">> ELSE <<>>) \o Repr(items[i])])

ReprEntries(entries) ==
    Join([i \in 1 .. Len(entries) |->
             (IF i > 1 THEN <<",", " ">> ELSE <<>>)
                 \o Repr(entries[i].k) \o <<":", " ">> \o Repr(entries[i].v)])

Repr(val) ==
    IF val.t = "int" THEN IntToStr(val.v)
    ELSE IF val.t = "str" THEN Quoted(val.v)
    ELSE IF val.t = "list" THEN <<"[">> \o ReprItems(val.v) \o <<"]">>
    ELSE <<"{">> \o ReprEntries(val.v) \o <<"}">>

\* str(value)
Str(val) == IF val.t = "str" THEN val.v ELSE Repr(val)

\* s is a decimal integer literal
IsIntLiteral(s) ==
    /\ Len(s) >= 1
    /\ \A i \in 1 .. Len(s) : s[i] \in Digits
    /\ (s[1] # "0" \/ \A i \in 1 .. Len(s) : s[i] = "0")

\* s is a quoted string literal without escapes
IsStrLiteral(s) ==
    /\ Len(s) >= 2
    /\ s[1] \in {"'", "\""}
    /\ s[Len(s)] = s[1]
    /\ \A i \in 2 .. (Len(s) - 1) : s[i] \notin {s[1], "\\", NL}

IsScalarLiteral(s) == IsIntLiteral(s) \/ IsStrLiteral(s)

\* the value of a scalar literal
Scalar(s) ==
    IF IsIntLiteral(s) THEN IntVal(ParseInt(s)) ELSE StrVal(SubSeq(s, 2, Len(s) - 1))

\* the text between the brackets of s
Inner(s) == Strip(SubSeq(s, 2, Len(s) - 1))

\* s is a list display of at most one scalar literal
IsListLiteral(s) ==
    /\ Len(s) >= 2
    /\ s[1] = "[" /\ s[Len(s)] = "]"
    /\ Inner(s) = <<>> \/ IsScalarLiteral(Inner(s))

\* inner is "key: value", colon the place of its first colon
IsEntry(inner, colon) ==
    /\ colon > 0
    /\ IsScalarLiteral(Strip(Take(inner, colon - 1)))
    /\ IsScalarLiteral(Strip(Drop(inner, colon)))

Entry(inner, colon) ==
    [k |-> Scalar(Strip(Take(inner, colon - 1))), v |-> Scalar(Strip(Drop(inner, colon)))]

\* s is a dict display of at most one entry, scalar key and scalar value
IsDictLiteral(s) ==
    /\ Len(s) >= 2
    /\ s[1] = "{" /\ s[Len(s)] = "}"
    /\ Inner(s) = <<>> \/ IsEntry(Inner(s), IndexOf(Inner(s), <<":">>))

\* ast.literal_eval of the stripped text s, with the fallback to the raw text arg
Literal(arg, s) ==
    IF IsScalarLiteral(s) THEN Scalar(s)
    ELSE IF IsListLiteral(s)
    THEN ListVal(IF Inner(s) = <<>> THEN <<>> ELSE <<Scalar(Inner(s))>>)
    ELSE IF IsDictLiteral(s)
    THEN DictVal(IF Inner(s) = <<>> THEN <<>>
                 ELSE <<Entry(Inner(s), IndexOf(Inner(s), <<":">>))>>)
    ELSE StrVal(arg)

\* ast.literal_eval with the fallback to the raw text, for decimal integers,
\* quoted strings without escapes, and lists and dicts of at most one of those
_ast_parse(arg) == Literal(arg, Strip(arg))

\* the registry: self.tools of LLMCompiler, each with its declared argument names
Tools ==
    << [name |-> S_trip_planner, args |-> <<S_info>>],
       [name |-> S_PerplexityAgent, args |-> <<S_query, S_user_context>>],
       [name |-> S_TwilioAgent, args |-> <<S_to_number, S_message>>] >>

JoinTool == [isTool |-> FALSE, name |-> S_join, args |-> <<>>]
BaseTool(t) == [isTool |-> TRUE, name |-> t.name, args |-> t.args]

Put(d, k, v) == [x \in DOMAIN d \cup {k} |-> IF x = k THEN v ELSE d[x]]

\* the loop over tool.args.keys() of _parse_llm_compiler_action_args
RECURSIVE ArgsLoop(_, _, _, _, _)
\* one turn of the loop: idx is args.index(f"{key}=") + 1, or 0 when the key is absent
ArgsStep(keys, args, tool_key, prev_idx, extracted_args, idx) ==
    IF idx > 0
    THEN ArgsLoop(Tail(keys), Drop(args, idx + Len(Head(keys))), Head(keys), Some(0),
                  IF prev_idx # None
                  THEN Put(extracted_args, tool_key,
                           _ast_parse(RStripSet(Strip(Take(args, idx - 1)), {","})))
                  ELSE extracted_args)
    ELSE ArgsLoop(Tail(keys), args, tool_key, prev_idx, extracted_args)

ArgsLoop(keys, args, tool_key, prev_idx, extracted_args) ==
    IF Len(keys) = 0
    THEN IF prev_idx # None
         THEN Put(extracted_args, tool_key,
                  _ast_parse(RStripSet(RStripSet(Strip(args), {","}), {")"})))
         ELSE extracted_args
    ELSE ArgsStep(keys, args, tool_key, prev_idx, extracted_args,
                  IndexOf(args, Head(keys) \o <<"=">>))

_parse_llm_compiler_action_args(args, tool) ==
    IF args = <<>> THEN <<>>
    ELSE IF tool.isTool THEN ArgsLoop(tool.args, args, None, None, <<>>)
    ELSE <<>>

Min(S) == CHOOSE x \in S : \A y \in S : x <= y
Max(S) == CHOOSE x \in S : \A y \in S : y <= x

\* sorted(list(set(deps)))
RECURSIVE SortedSeq(_)
SortedSeq(S) == IF S = {} THEN <<>> ELSE <<Min(S)>> \o SortedSeq(S \ {Min(S)})

Range(f) == {f[x] : x \in DOMAIN f}

\* mutant: the join rule left out
_get_dependencies_from_graph_nojoin(idx, tool_name, args) ==
    SortedSeq(UNION {Range(FindIds(Str(args[k]))) : k \in DOMAIN args})

\* mutant: re.search instead of re.findall, the first token of each value
_get_dependencies_from_graph_first(idx, tool_name, args) ==
    IF tool_name = S_join THEN [i \in 1 .. (idx - 1) |-> i]
    ELSE SortedSeq({FindIds(Str(args[k]))[1] :
                       k \in {x \in DOMAIN args : FindIds(Str(args[x])) # <<>>}})

_get_dependencies_from_graph(idx, tool_name, args) ==
    IF tool_name = S_join THEN [i \in 1 .. (idx - 1) |-> i]
    ELSE SortedSeq(UNION {Range(FindIds(Str(args[k]))) : k \in DOMAIN args})

\* Task(...) of instantiate_task, lines 93-101
Task(idx, tool, tool_name, tool_args, thought) ==
    [idx |-> idx, tool |-> tool, args |-> tool_args,
     dependencies |-> _get_dependencies_from_graph(idx, tool_name, tool_args),
     thought |-> thought]

\* instantiate_task from line 92 on, with the tool that was found
WithTool(idx, tool, tool_name, args, thought) ==
    Task(idx, tool, tool_name, _parse_llm_compiler_action_args(args, tool), thought)

\* [t.name for t in tools].index(tool_name), from 1
ToolIndex(tool_name) ==
    CHOOSE i \in 1 .. Len(Tools) :
        Tools[i].name = tool_name /\ \A j \in 1 .. (i - 1) : Tools[j].name # tool_name

\* instantiate_task: Some(Task), or None when OutputParserException is raised
instantiate_task(idx, tool_name, args, thought) ==
    IF tool_name = S_join THEN Some(WithTool(idx, JoinTool, tool_name, args, thought))
    ELSE IF \E i \in 1 .. Len(Tools) : Tools[i].name = tool_name
    THEN Some(WithTool(idx, BaseTool(Tools[ToolIndex(tool_name)]), tool_name, args, thought))
    ELSE None

\* the end of _parse_task for an action line: t is what instantiate_task gave
ParsedAction(t, thought) ==
    IF t = None THEN [task |-> None, thought |-> thought, raised |-> TRUE]
    ELSE [task |-> t, thought |-> None, raised |-> FALSE]

\* mutant: a line that matches neither pattern clears the thought
ParseAction_reset(act, thought) ==
    IF act # None
    THEN ParsedAction(instantiate_task(ParseInt(act[1].idx), act[1].tool_name,
                                       act[1].args, thought), thought)
    ELSE [task |-> None, thought |-> None, raised |-> FALSE]

\* the elif branch of _parse_task: act is re.match(ACTION_PATTERN, line)
ParseAction(act, thought) ==
    IF act # None
    THEN ParsedAction(instantiate_task(ParseInt(act[1].idx), act[1].tool_name,
                                       act[1].args, thought), thought)
    ELSE [task |-> None, thought |-> thought, raised |-> FALSE]

\* the if branch of _parse_task: th is re.match(THOUGHT_PATTERN, line)
ParseThought(th, line, thought) ==
    IF th # None THEN [task |-> None, thought |-> Some(th[1]), raised |-> FALSE]
    ELSE ParseAction(ACTION_PATTERN(line), thought)

\* _parse_task: the task (or None), the new thought, and whether it raised
_parse_task(line, thought) == ParseThought(THOUGHT_PATTERN(line), line, thought)

(***************************************************************************)
(* The generator LLMCompilerPlanParser._transform / ingest_token.          *)
(* A parser state p is a record: pc is the place the generator is at, ci   *)
(* the number of chunks taken, texts the list buffer of _transform,        *)
(* thought the local of _transform, and lines, suffix, ithought the locals *)
(* of the ingest_token call in progress.                                   *)
(***************************************************************************)
ParserInit ==
    [pc |-> "chunk", ci |-> 0, texts |-> <<>>, thought |-> None,
     lines |-> <<>>, suffix |-> <<>>, ithought |-> None]

HasNewline(token) == \E i \in 1 .. Len(token) : token[i] = NL

\* mutant: the loop runs over buffer_ instead of buffer_[:-1]
SplitBuffer_all(p, buffer, buffer_) ==
    [p EXCEPT !.pc = "ingest", !.ci = @ + 1, !.texts = buffer,
              !.lines = buffer_,
              !.suffix = buffer_[Len(buffer_)],
              !.ithought = p.thought]

\* ingest_token, lines 162-165: buffer_ is "".join(buffer).split("\n")
SplitBuffer(p, buffer, buffer_) ==
    [p EXCEPT !.pc = "ingest", !.ci = @ + 1, !.texts = buffer,
              !.lines = Take(buffer_, Len(buffer_) - 1),
              !.suffix = buffer_[Len(buffer_)],
              !.ithought = p.thought]

\* mutant: a token without a newline is not kept in the buffer
Ingest_nobuffer(p, token, buffer) ==
    IF HasNewline(token) THEN SplitBuffer(p, buffer, SplitLines(Join(buffer)))
    ELSE [p EXCEPT !.ci = @ + 1]

\* ingest_token after buffer.append(token)
Ingest(p, token, buffer) ==
    IF HasNewline(token) THEN SplitBuffer(p, buffer, SplitLines(Join(buffer)))
    ELSE [p EXCEPT !.ci = @ + 1, !.texts = buffer]

\* ingest_token up to its loop: buffer.append(token) and the split of the buffer
ingest_token(p, token) == Ingest(p, token, Append(p.texts, token))

\* the loop of ingest_token, one line: r is what _parse_task gave for it
IngestLine(p, r) ==
    IF r.raised THEN [p |-> [p EXCEPT !.pc = "raised"], out |-> None]
    ELSE IF r.task # None
    THEN [p |-> [p EXCEPT !.lines = Tail(@), !.ithought = r.thought, !.thought = r.thought],
          out |-> r.task]
    ELSE [p |-> [p EXCEPT !.lines = Tail(@), !.ithought = r.thought], out |-> None]

\* mutant: the text left in the buffer at the end of the stream is discarded
Remaining_discard(p, r) == [p |-> [p EXCEPT !.pc = "done"], out |-> None]

\* _transform, lines 134-137: r is what _parse_task gave for the remaining text
Remaining(p, r) ==
    IF r.raised THEN [p |-> [p EXCEPT !.pc = "raised"], out |-> None]
    ELSE [p |-> [p EXCEPT !.pc = "done"], out |-> r.task]

\* one step of the generator: the next state and the task it yields, if any
_transform(p, chunks) ==
    CASE p.pc = "chunk" ->
           IF p.ci < Len(chunks)
           THEN [p |-> ingest_token(p, chunks[p.ci + 1]), out |-> None]
           ELSE [p |-> [p EXCEPT !.pc = "rest"], out |-> None]
      [] p.pc = "ingest" ->
           IF Len(p.lines) = 0
           THEN [p |-> [p EXCEPT !.pc = "chunk", !.texts = <<p.suffix>>], out |-> None]
           ELSE IngestLine(p, _parse_task(Head(p.lines), p.ithought))
      [] p.pc = "rest" ->
           IF Len(p.texts) > 0
           THEN Remaining(p, _parse_task(Join(p.texts), p.thought))
           ELSE [p |-> [p EXCEPT !.pc = "done"], out |-> None]
      [] OTHER -> [p |-> p, out |-> None]

\* next(tasks_iter): run the generator to its next yield, its end or its raise
RECURSIVE NextTask(_, _)
UntilYield(r, chunks) ==
    IF r.out # None \/ r.p.pc \in {"done", "raised"} THEN r ELSE NextTask(r.p, chunks)

NextTask(p, chunks) == UntilYield(_transform(p, chunks), chunks)

\* list(parser.stream(chunks)): the tasks yielded, and whether the stream raised
RECURSIVE Drain(_, _, _)
Collect(r, chunks, acc) ==
    IF r.p.pc \in {"done", "raised"}
    THEN [tasks |-> acc, raised |-> r.p.pc = "raised"]
    ELSE Drain(r.p, chunks, acc)

Yielded(r, chunks, acc) ==
    Collect(r, chunks, IF r.out # None THEN Append(acc, r.out[1]) ELSE acc)

Drain(p, chunks, acc) == Yielded(NextTask(p, chunks), chunks, acc)

parse(chunks) == Drain(ParserInit, chunks, <<>>)

(***************************************************************************)
(* The task fetching unit                                                  *)
(***************************************************************************)
S_ERROR == <<"E", "R", "R", "O", "R", ":", " ">>
S_FailedExecute == <<"F", "a", "i", "l", "e", "d", " ", "t", "o", " ", "e", "x", "e", "c", "u", "t", "e", " ">>
S_FailedResolve == <<"F", "a", "i", "l", "e", "d", " ", "t", "o", " ", "r", "e", "s", "o", "l", "v", "e", " ", "a", "r", "g", "u", "m", "e", "n", "t", "s", " ", "f", "o", "r", " ">>
S_ErrorIs == <<".", " ", "E", "r", "r", "o", "r", ":", " ">>
\* repr(e) of the exception a capability raised
S_repr == <<"E", "x", "c", "e", "p", "t", "i", "o", "n", "(", ")">>

RECURSIVE _get_observations(_)
\* results filled by a loop over the messages in list order
RECURSIVE InListOrder(_, _)
InListOrder(messages, results) ==
    IF Len(messages) = 0 THEN results
    ELSE IF messages[1].type = "function" /\ messages[1].idx # None
    THEN InListOrder(Tail(messages), Put(results, messages[1].idx[1], messages[1].content))
    ELSE InListOrder(Tail(messages), results)

\* mutant: the loop runs over messages instead of reversed(messages)
_get_observations_forward(messages) == InListOrder(messages, <<>>)

\* _get_observations: the loop over reversed(messages); the first message of
\* the list is assigned last
_get_observations(messages) ==
    IF Len(messages) = 0 THEN <<>>
    ELSE IF messages[1].type = "function" /\ messages[1].idx # None
    THEN Put(_get_observations(Tail(messages)), messages[1].idx[1], messages[1].content)
    ELSE _get_observations(Tail(messages))

\* mutant: observations.get(idx) without the default
Substitute_nodefault(toks, observations) ==
    Join([i \in 1 .. Len(toks) |->
             IF toks[i].ref
             THEN (IF toks[i].idx \in DOMAIN observations
                   THEN observations[toks[i].idx]
                   ELSE <<"N", "o", "n", "e">>)
             ELSE toks[i].text])

\* replace_match for every token of the scan
Substitute(toks, observations) ==
    Join([i \in 1 .. Len(toks) |->
             IF toks[i].ref /\ toks[i].idx \in DOMAIN observations
             THEN observations[toks[i].idx]
             ELSE toks[i].text])

\* mutant: the string is returned as it is
ResolveStr_asis(arg, observations) == arg

\* mutant: the result of the substitution is scanned and substituted again
ResolveStr_again(arg, observations) ==
    Substitute(ScanIds(Substitute(ScanIds(arg), observations)), observations)

\* _resolve_arg on a str: re.sub(ID_PATTERN, replace_match, arg)
ResolveStr(arg, observations) == Substitute(ScanIds(arg), observations)

RECURSIVE _resolve_arg(_, _)
\* the list comprehension of line 42
ResolveList(items, observations) ==
    [i \in 1 .. Len(items) |-> _resolve_arg(items[i], observations)]

\* mutant: a scalar that is not a str is turned into its text
_resolve_arg_str(arg, observations) ==
    IF arg.t = "str" THEN StrVal(ResolveStr(arg.v, observations))
    ELSE IF arg.t = "list" THEN ListVal(ResolveList(arg.v, observations))
    ELSE StrVal(IntToStr(arg.v))

_resolve_arg(arg, observations) ==
    IF arg.t = "str" THEN StrVal(ResolveStr(arg.v, observations))
    ELSE IF arg.t = "list" THEN ListVal(ResolveList(arg.v, observations))
    ELSE arg

\* the dict comprehension of _execute_task
ResolveArgs(args, observations) ==
    [key \in DOMAIN args |-> _resolve_arg(args[key], observations)]

\* whether resolving args calls str() on an Observation
SubstitutesIn(arg, observations) ==
    /\ arg.t = "str"
    /\ \E i \in Range(FindIds(arg.v)) : i \in DOMAIN observations

Substitutes(args, observations) ==
    \E key \in DOMAIN args :
        \/ SubstitutesIn(args[key], observations)
        \/ /\ args[key].t = "list"
           /\ \E j \in 1 .. Len(args[key].v) : SubstitutesIn(args[key].v[j], observations)

\* mutant: the message without its marker
ErrorExecute_nomarker(tool) == S_FailedExecute \o tool.name \o S_ErrorIs \o S_repr

ErrorExecute(tool) == S_ERROR \o S_FailedExecute \o tool.name \o S_ErrorIs \o S_repr
ErrorResolve(tool) == S_ERROR \o S_FailedResolve \o tool.name \o S_ErrorIs \o S_repr

\* what the capability of a task returns when it returns
ToolResult(task) == <<"r">> \o IntToStr(task.idx)

\* mutant: all() instead of any()
DepsMissing_all(task, observations) ==
    /\ Len(task.dependencies) > 0
    /\ \A i \in 1 .. Len(task.dependencies) : task.dependencies[i] \notin DOMAIN observations

\* mutant: "deps" alone, every task that has dependencies waits
DepsMissing_nonempty(task, observations) == Len(task.dependencies) > 0

\* "deps and any(dep not in observations for dep in deps)"
DepsMissing(task, observations) ==
    /\ Len(task.dependencies) > 0
    /\ \E i \in 1 .. Len(task.dependencies) : task.dependencies[i] \notin DOMAIN observations

\* ThreadPoolExecutor(): the default max_workers is min(32, cpu_count + 4), at least 5
max_workers == 5

(***************************************************************************)
(* State                                                                   *)
(***************************************************************************)
VARIABLES
    chunks,        \* the input of parser.stream: the list of text chunks
    messages,      \* scheduler_input["messages"]
    parser,        \* the state of the generator tasks_iter
    pulled,        \* the tasks the generator has yielded, in order
    pcMain,        \* where the thread that calls plan_and_schedule is
    observations,  \* the shared dict of schedule_tasks
    originals,     \* set(observations) at the start of the pass
    task_names,    \* idx -> tool name
    futures,       \* the positions (in pulled) submitted to the executor
    run,           \* per position in pulled: how far its execution is
    returned,      \* the list schedule_tasks returns, None before
    broker,        \* the MessageBroker and the publish coroutines in flight
    call,          \* a direct call of _resolve_arg: its input, the map and its result
    stream         \* a call of stream_with_timeout: where it is and what it has yielded

vars == <<broker, call, stream, chunks, messages, parser, pulled, pcMain, observations, originals,
          task_names, futures, run, returned>>

\* the plan lines of the scheduling model
SchedLines ==
    { <<"1", ".", " ", "t", "r", "i", "p", "_", "p", "l", "a", "n", "n", "e", "r", "(", ")">>,
      <<"2", ".", " ", "t", "r", "i", "p", "_", "p", "l", "a", "n", "n", "e", "r", "(", "i", "n", "f", "o", "=", "$", "1", ")">>,
      <<"2", ".", " ", "t", "r", "i", "p", "_", "p", "l", "a", "n", "n", "e", "r", "(", "i", "n", "f", "o", "=", "$", "3", ")">>,
      <<"3", ".", " ", "j", "o", "i", "n", "(", ")">>,
      <<"2", ".", " ", "z", "z", "(", ")">>,
      <<"3", ".", " ", "t", "r", "i", "p", "_", "p", "l", "a", "n", "n", "e", "r", "(", ")">> }

\* the lines of the parsing model
ParseLines ==
    { <<"T", "h", "o", "u", "g", "h", "t", ":", " ", "t">>,
      <<"1", ".", " ", "t", "r", "i", "p", "_", "p", "l", "a", "n", "n", "e", "r", "(", ")">>,
      <<"2", ".", " ", "j", "o", "i", "n", "(", ")">>,
      <<"p", "r", "o", "s", "e">>,
      <<"1", ".", " ", "z", "z", "(", ")">> }

\* the messages of the history
HistoryMessages ==
    { [type |-> "function", idx |-> Some(1), content |-> <<"p">>],
      [type |-> "human", idx |-> None, content |-> <<"h">>] }

SeqsUpTo(S, n) == UNION {[1 .. k -> S] : k \in 0 .. n}

\* the text of a plan: each line followed by a newline, the last one only if terminated
RECURSIVE PlanText(_, _)
PlanText(ls, terminated) ==
    IF Len(ls) = 0 THEN <<>>
    ELSE IF Len(ls) = 1 THEN ls[1] \o (IF terminated THEN <<NL>> ELSE <<>>)
    ELSE ls[1] \o <<NL>> \o PlanText(Tail(ls), terminated)

\* text cut into chunks at the positions of cuts
RECURSIVE CutAt(_, _)
CutAt(text, cuts) ==
    IF cuts = {} THEN <<text>>
    ELSE Append(CutAt(Take(text, Max(cuts)), cuts \ {Max(cuts)}), Drop(text, Max(cuts)))

\* the sets of at most k cut positions among 1 .. n
RECURSIVE CutSets(_, _)
CutSets(n, k) ==
    IF k = 0 THEN {{}}
    ELSE {S \cup C : S \in CutSets(n, k - 1), C \in {{}} \cup {{c} : c \in 1 .. n}}

\* the chunkings of a text: cut at no more than MaxCuts places
Chunkings(text) == {CutAt(text, cuts) : cuts \in CutSets(Len(text) - 1, MaxCuts)}

\* the record of one pulled task: status is where its execution is, outcome how
\* it ended, seen the keys of the map when its arguments were resolved, resolved
\* the arguments its capability received, wrote the observation it stored, calls
\* the number of invocations of its capability
NotRun ==
    [status |-> "pulled", outcome |-> "none", seen |-> {}, resolved |-> None,
     wrote |-> None, calls |-> 0]

InitPass ==
    /\ parser = ParserInit
    /\ pulled = <<>>
    /\ pcMain = "plan"
    /\ observations = _get_observations(messages)
    /\ originals = DOMAIN observations
    /\ task_names = <<>>
    /\ futures = <<>>
    /\ run = <<>>
    /\ returned = None

\* a scheduling pass over a plan that arrives as one chunk
Init ==
    /\ \E ls \in SeqsUpTo(SchedLines, MaxTasks) : chunks = <<PlanText(ls, TRUE)>>
    /\ messages \in SeqsUpTo(HistoryMessages, MaxMessages)
    /\ InitPass
    /\ call = None
    /\ broker = None
    /\ stream = None

\* the parser alone, over a plan cut into chunks anywhere
InitParse ==
    /\ \E ls \in SeqsUpTo(ParseLines, MaxParseLines), terminated \in BOOLEAN :
         chunks \in Chunkings(PlanText(ls, terminated))
    /\ messages = <<>>
    /\ InitPass
    /\ call = None
    /\ broker = None
    /\ stream = None

(***************************************************************************)
(* The main thread: plan_and_schedule and the loop of schedule_tasks       *)
(***************************************************************************)
\* next(tasks_iter) yields a task: line 217 of llm_compiler.py for the first
\* task, the for statement of schedule_tasks for the others
\* r is what next(tasks_iter) gave: a task
Yields(r) ==
    /\ r.out # None
    /\ parser' = r.p
    /\ pulled' = Append(pulled, r.out[1])

\* r is what next(tasks_iter) gave: StopIteration
Ends(r) ==
    /\ r.out = None
    /\ r.p.pc = "done"
    /\ parser' = r.p

\* r is what next(tasks_iter) gave: OutputParserException
Raises(r) ==
    /\ r.out = None
    /\ r.p.pc = "raised"
    /\ parser' = r.p

PullTask ==
    /\ pcMain \in {"plan", "next"}
    /\ Yields(NextTask(parser, chunks))
    /\ run' = Append(run, NotRun)
    /\ pcMain' = "dispatch"
    /\ UNCHANGED <<broker, call, stream, chunks, messages, observations, originals, task_names, futures, returned>>

\* the generator is exhausted: the loop ends and the thread goes to wait(futures)
PullEnd ==
    /\ pcMain \in {"plan", "next"}
    /\ Ends(NextTask(parser, chunks))
    /\ pcMain' = "wait"
    /\ UNCHANGED <<broker, call, stream, chunks, messages, pulled, observations, originals, task_names,
                   futures, run, returned>>

\* the generator raises OutputParserException: out of plan_and_schedule at
\* once for the first task, through the exit of the with block otherwise
PullRaise ==
    /\ pcMain \in {"plan", "next"}
    /\ Raises(NextTask(parser, chunks))
    /\ pcMain' = IF pcMain = "plan" THEN "raised" ELSE "raising"
    /\ UNCHANGED <<broker, call, stream, chunks, messages, pulled, observations, originals, task_names,
                   futures, run, returned>>

SetName(n) ==
    task_names' = Put(task_names, pulled[n].idx, pulled[n].tool.name)

\* lines 114-131: a dependency is missing, the task goes to the executor
Submit ==
    /\ pcMain = "dispatch"
    /\ DepsMissing(pulled[Len(pulled)], observations)
    /\ SetName(Len(pulled))
    /\ futures' = Append(futures, Len(pulled))
    /\ run' = [run EXCEPT ![Len(pulled)].status = "queued"]
    /\ pcMain' = "next"
    /\ UNCHANGED <<broker, call, stream, chunks, messages, parser, pulled, observations, originals, returned>>

\* lines 114-121, 132-134: the dependencies are there, the loop itself calls schedule_task
RunNow ==
    /\ pcMain = "dispatch"
    /\ ~DepsMissing(pulled[Len(pulled)], observations)
    /\ SetName(Len(pulled))
    /\ run' = [run EXCEPT ![Len(pulled)].status = "ready"]
    /\ pcMain' = "exec"
    /\ UNCHANGED <<broker, call, stream, chunks, messages, parser, pulled, observations, originals, futures,
                   returned>>

(***************************************************************************)
(* schedule_task / _execute_task, run by the main thread or by a worker    *)
(***************************************************************************)
IsWorker(n) == \E i \in 1 .. Len(futures) : futures[i] = n

\* the thread that runs position n may take a step
MayStep(n) == IsWorker(n) \/ (pcMain = "exec" /\ n = Len(pulled))

\* the task at position n is over: the main thread goes on with its loop
Finished(n) == pcMain' = IF IsWorker(n) THEN pcMain ELSE "next"

\* mutant: the join sentinel is invoked like a tool and its result recorded
ExecuteJoin_invoked(n) ==
    /\ MayStep(n)
    /\ run[n].status = "ready"
    /\ ~pulled[n].tool.isTool
    /\ observations' = Put(observations, pulled[n].idx, ToolResult(pulled[n]))
    /\ run' = [run EXCEPT ![n].status = "done", ![n].outcome = "join",
                          ![n].seen = DOMAIN observations,
                          ![n].wrote = Some(ToolResult(pulled[n])),
                          ![n].calls = @ + 1]
    /\ Finished(n)
    /\ UNCHANGED <<broker, call, stream, chunks, messages, parser, pulled, originals, task_names, futures, returned>>

\* _execute_task, lines 47-50: a str tool is returned as the observation
ExecuteJoin(n) ==
    /\ MayStep(n)
    /\ run[n].status = "ready"
    /\ ~pulled[n].tool.isTool
    /\ observations' = Put(observations, pulled[n].idx, pulled[n].tool.name)
    /\ run' = [run EXCEPT ![n].status = "done", ![n].outcome = "join",
                          ![n].seen = DOMAIN observations,
                          ![n].wrote = Some(pulled[n].tool.name)]
    /\ Finished(n)
    /\ UNCHANGED <<broker, call, stream, chunks, messages, parser, pulled, originals, task_names, futures, returned>>

\* _execute_task, lines 52-60: the arguments are resolved against the live map
Resolve(n) ==
    /\ MayStep(n)
    /\ run[n].status = "ready"
    /\ pulled[n].tool.isTool
    /\ run' = [run EXCEPT ![n].status = "invoking", ![n].seen = DOMAIN observations,
                          ![n].resolved = Some(ResolveArgs(pulled[n].args, observations))]
    /\ UNCHANGED <<broker, call, stream, chunks, messages, parser, pulled, pcMain, observations, originals,
                   task_names, futures, returned>>

\* _execute_task, lines 61-62, and schedule_task line 76: str() of an Observation raises
ResolveFails(n) ==
    /\ MayStep(n)
    /\ run[n].status = "ready"
    /\ pulled[n].tool.isTool
    /\ Substitutes(pulled[n].args, observations)
    /\ observations' = Put(observations, pulled[n].idx, ErrorResolve(pulled[n].tool))
    /\ run' = [run EXCEPT ![n].status = "done", ![n].outcome = "unresolved",
                          ![n].seen = DOMAIN observations,
                          ![n].wrote = Some(ErrorResolve(pulled[n].tool))]
    /\ Finished(n)
    /\ UNCHANGED <<broker, call, stream, chunks, messages, parser, pulled, originals, task_names, futures, returned>>

\* mutant: schedule_pending_task without its break: the worker polls again
InvokeReturns_nobreak(n) ==
    /\ MayStep(n)
    /\ run[n].status = "invoking"
    /\ run[n].calls < 2
    /\ observations' = Put(observations, pulled[n].idx, ToolResult(pulled[n]))
    /\ run' = [run EXCEPT ![n].status = IF IsWorker(n) THEN "polling" ELSE "done",
                          ![n].outcome = "returned",
                          ![n].calls = @ + 1,
                          ![n].wrote = Some(ToolResult(pulled[n]))]
    /\ Finished(n)
    /\ UNCHANGED <<broker, call, stream, chunks, messages, parser, pulled, originals, task_names, futures, returned>>

\* _execute_task line 65 and schedule_task line 76: the capability returns
InvokeReturns(n) ==
    /\ MayStep(n)
    /\ run[n].status = "invoking"
    /\ observations' = Put(observations, pulled[n].idx, ToolResult(pulled[n]))
    /\ run' = [run EXCEPT ![n].status = "done", ![n].outcome = "returned",
                          ![n].calls = @ + 1,
                          ![n].wrote = Some(ToolResult(pulled[n]))]
    /\ Finished(n)
    /\ UNCHANGED <<broker, call, stream, chunks, messages, parser, pulled, originals, task_names, futures, returned>>

\* mutant: the exception of the capability is not caught, nothing is stored
InvokeRaises_unrecorded(n) ==
    /\ MayStep(n)
    /\ run[n].status = "invoking"
    /\ run' = [run EXCEPT ![n].status = "done", ![n].outcome = "raised",
                          ![n].calls = @ + 1]
    /\ Finished(n)
    /\ UNCHANGED <<broker, call, stream, chunks, messages, parser, pulled, observations, originals, task_names,
                   futures, returned>>

\* _execute_task lines 66-67 and schedule_task line 76: the capability raises
InvokeRaises(n) ==
    /\ MayStep(n)
    /\ run[n].status = "invoking"
    /\ observations' = Put(observations, pulled[n].idx, ErrorExecute(pulled[n].tool))
    /\ run' = [run EXCEPT ![n].status = "done", ![n].outcome = "raised",
                          ![n].calls = @ + 1,
                          ![n].wrote = Some(ErrorExecute(pulled[n].tool))]
    /\ Finished(n)
    /\ UNCHANGED <<broker, call, stream, chunks, messages, parser, pulled, originals, task_names, futures, returned>>

(***************************************************************************)
(* The workers of the executor: schedule_pending_task                      *)
(***************************************************************************)
Active == {n \in 1 .. Len(run) : IsWorker(n) /\ run[n].status \in {"polling", "ready", "invoking"}}

\* a thread of the pool takes the work item: the queue of the executor is
\* first in, first out, and a thread is there for the item if fewer than
\* max_workers are busy
WorkerStart(n) ==
    /\ IsWorker(n)
    /\ run[n].status = "queued"
    /\ \A m \in 1 .. (n - 1) : IsWorker(m) => run[m].status # "queued"
    /\ Cardinality(Active) < max_workers
    /\ run' = [run EXCEPT ![n].status = "polling"]
    /\ UNCHANGED <<broker, call, stream, chunks, messages, parser, pulled, pcMain, observations, originals,
                   task_names, futures, returned>>

\* lines 88-92: a dependency is missing, sleep and check again
WorkerSleep(n) ==
    /\ IsWorker(n)
    /\ run[n].status = "polling"
    /\ DepsMissing(pulled[n], observations)
    /\ UNCHANGED vars

\* lines 88-93: every dependency is there, go on to schedule_task
WorkerReady(n) ==
    /\ IsWorker(n)
    /\ run[n].status = "polling"
    /\ ~DepsMissing(pulled[n], observations)
    /\ run' = [run EXCEPT ![n].status = "ready"]
    /\ UNCHANGED <<broker, call, stream, chunks, messages, parser, pulled, pcMain, observations, originals,
                   task_names, futures, returned>>

(***************************************************************************)
(* The end of schedule_tasks                                               *)
(***************************************************************************)
\* mutant: no wait for the workers
AllFuturesDone_nowait == TRUE

\* wait(futures) and shutdown(wait=True) have returned
AllFuturesDone == \A i \in 1 .. Len(futures) : run[futures[i]].status = "done"

FunctionMessage(idx) ==
    [name |-> task_names[idx], content |-> observations[idx], idx |-> idx]

\* the list comprehension of lines 145-155 over the keys new
Messages(new) == [i \in 1 .. Len(new) |-> FunctionMessage(new[i])]

\* mutant: every task that was named, the original keys included
tool_messages_names == Messages(SortedSeq(DOMAIN task_names))

\* mutant: sorted(..., reverse=True)
tool_messages_reversed ==
    [i \in 1 .. Cardinality(DOMAIN observations \ originals) |->
        Messages(SortedSeq(DOMAIN observations \ originals))[
            Cardinality(DOMAIN observations \ originals) + 1 - i]]

\* lines 143-155: the new observations, as messages
tool_messages == Messages(SortedSeq(DOMAIN observations \ originals))

\* lines 141-155: wait(futures), the exit of the with block, and the result
Return ==
    /\ pcMain = "wait"
    /\ AllFuturesDone
    /\ returned' = Some(tool_messages)
    /\ pcMain' = "done"
    /\ UNCHANGED <<broker, call, stream, chunks, messages, parser, pulled, observations, originals,
                   task_names, futures, run>>

\* mutant: the exception leaves without the wait of the with block
Raise_nowait ==
    /\ pcMain = "raising"
    /\ pcMain' = "raised"
    /\ UNCHANGED <<broker, call, stream, chunks, messages, parser, pulled, observations, originals,
                   task_names, futures, run, returned>>

\* the exit of the with block while OutputParserException propagates:
\* shutdown(wait=True), then the exception leaves schedule_tasks
Raise ==
    /\ pcMain = "raising"
    /\ AllFuturesDone
    /\ pcMain' = "raised"
    /\ UNCHANGED <<broker, call, stream, chunks, messages, parser, pulled, observations, originals,
                   task_names, futures, run, returned>>

Next ==
    \/ PullTask
    \/ PullEnd
    \/ PullRaise
    \/ Submit
    \/ RunNow
    \/ \E n \in 1 .. Len(pulled) : ExecuteJoin(n)
    \/ \E n \in 1 .. Len(pulled) : Resolve(n)
    \/ \E n \in 1 .. Len(pulled) : ResolveFails(n)
    \/ \E n \in 1 .. Len(pulled) : InvokeReturns(n)
    \/ \E n \in 1 .. Len(pulled) : InvokeRaises(n)
    \/ \E n \in 1 .. Len(pulled) : WorkerStart(n)
    \/ \E n \in 1 .. Len(pulled) : WorkerSleep(n)
    \/ \E n \in 1 .. Len(pulled) : WorkerReady(n)
    \/ Return
    \/ Raise

Spec == Init /\ [][Next]_vars

(***************************************************************************)
(* The parser alone: list(parser.stream(chunks)), the generator pulled     *)
(* by the list constructor until it ends or raises                         *)
(***************************************************************************)
ParseTask ==
    /\ parser.pc \notin {"done", "raised"}
    /\ Yields(NextTask(parser, chunks))
    /\ UNCHANGED <<broker, call, stream, chunks, messages, pcMain, observations, originals, task_names,
                   futures, run, returned>>

ParseEnd ==
    /\ parser.pc \notin {"done", "raised"}
    /\ Ends(NextTask(parser, chunks))
    /\ UNCHANGED <<broker, call, stream, chunks, messages, pulled, pcMain, observations, originals,
                   task_names, futures, run, returned>>

ParseRaise ==
    /\ parser.pc \notin {"done", "raised"}
    /\ Raises(NextTask(parser, chunks))
    /\ UNCHANGED <<broker, call, stream, chunks, messages, pulled, pcMain, observations, originals,
                   task_names, futures, run, returned>>

NextParse == ParseTask \/ ParseEnd \/ ParseRaise

SpecParse == InitParse /\ [][NextParse]_vars

(***************************************************************************)
(* The parser over a text fed as one chunk, with lines that match neither  *)
(* pattern: prose, a blank line, a line whose index is not an integer      *)
(***************************************************************************)
MaxLines == 3

NoMatchLines ==
    { <<>>,
      <<"x", ".", " ", "t", "r", "i", "p", "_", "p", "l", "a", "n", "n", "e", "r", "(", ")">> }

InitLines ==
    /\ \E ls \in SeqsUpTo(ParseLines \cup NoMatchLines, MaxLines), terminated \in BOOLEAN :
         chunks = <<PlanText(ls, terminated)>>
    /\ messages = <<>>
    /\ InitPass
    /\ call = None
    /\ broker = None
    /\ stream = None

SpecLines == InitLines /\ [][NextParse]_vars

(***************************************************************************)
(* Scheduling passes over plans whose arguments are literals with          *)
(* reference tokens                                                        *)
(***************************************************************************)
RefLines ==
    { <<"1", ".", " ", "t", "r", "i", "p", "_", "p", "l", "a", "n", "n", "e", "r", "(", "i", "n", "f", "o", "=", "'", "x", "'", ")">>,
      <<"2", ".", " ", "t", "r", "i", "p", "_", "p", "l", "a", "n", "n", "e", "r", "(", "i", "n", "f", "o", "=", "'", "a", "$", "{", "1", "}", "b", " ", "$", "1", "'", ")">>,
      <<"2", ".", " ", "t", "r", "i", "p", "_", "p", "l", "a", "n", "n", "e", "r", "(", "i", "n", "f", "o", "=", "5", ")">>,
      <<"2", ".", " ", "j", "o", "i", "n", "(", "$", "1", ")">>,
      <<"2", ".", " ", "z", "z", "(", ")">>,
      <<"3", ".", " ", "P", "e", "r", "p", "l", "e", "x", "i", "t", "y", "A", "g", "e", "n", "t", "(", "q", "u", "e", "r", "y", "=", "'", "$", "{", "2", "}", " ", "$", "1", "'", ",", " ", "u", "s", "e", "r", "_", "c", "o", "n", "t", "e", "x", "t", "=", "$", "2", ")">>,
      <<"2", ".", " ", "t", "r", "i", "p", "_", "p", "l", "a", "n", "n", "e", "r", "(", "i", "n", "f", "o", "=", "[", "'", "$", "1", "'", "]", ")">>,
      <<"2", ".", " ", "t", "r", "i", "p", "_", "p", "l", "a", "n", "n", "e", "r", "(", "i", "n", "f", "o", "=", "{", "'", "k", "'", ":", " ", "'", "$", "1", "'", "}", ")">> }

InitRefs ==
    /\ \E ls \in SeqsUpTo(RefLines, MaxRefTasks) : chunks = <<PlanText(ls, TRUE)>>
    /\ messages \in SeqsUpTo(HistoryMessages, MaxMessages)
    /\ InitPass
    /\ call = None
    /\ broker = None
    /\ stream = None

SpecRefs == InitRefs /\ [][Next]_vars

(***************************************************************************)
(* Scheduling passes over plans in which a number of tasks wait for the    *)
(* Observation of a later task, as many as the pool has threads            *)
(***************************************************************************)
MaxWaiting == 5
MaxReleased == 1

\* the line "idx. trip_planner(info=$ref)"
WaitingLine(idx, ref) ==
    IntToStr(idx) \o <<".", " ">> \o S_trip_planner \o <<"(">> \o S_info
        \o <<"=", "$">> \o IntToStr(ref) \o <<")">>

\* the line "idx. name()"
PlainLine(idx, name) == IntToStr(idx) \o <<".", " ">> \o name \o <<"(", ")">>

\* k tasks that wait for task k + 1
Waiting(k) == [i \in 1 .. k |-> WaitingLine(i, k + 1)]

\* after k waiting tasks, task k + 1 waits for the last task of the plan
DeferredTail(k) == <<WaitingLine(k + 1, k + 2), PlainLine(k + 2, S_trip_planner)>>

\* after k waiting tasks, task k + 1 runs at once and is followed by a join
\* or by an unknown capability
ReleasingTails(k) ==
    { <<PlainLine(k + 1, S_trip_planner), PlainLine(k + 2, S_join)>>,
      <<PlainLine(k + 1, S_trip_planner), PlainLine(k + 2, <<"z", "z">>)>> }

\* the plans: few waiting tasks with every end, or as many waiting tasks as
\* the pool has threads and more, followed by a task that is deferred
PoolPlans ==
    UNION {{Waiting(k) \o tail : tail \in ReleasingTails(k) \cup {DeferredTail(k)}} :
              k \in 0 .. MaxReleased}
        \cup {Waiting(k) \o DeferredTail(k) : k \in max_workers .. MaxWaiting}

InitPool ==
    /\ \E ls \in PoolPlans : chunks = <<PlanText(ls, TRUE)>>
    /\ messages = <<>>
    /\ InitPass
    /\ call = None
    /\ broker = None
    /\ stream = None

SpecPool == InitPool /\ [][Next]_vars

(***************************************************************************)
(* _resolve_arg alone: a direct call on a value and an Observation map.    *)
(* The value is built from pieces, so that the tokens it holds are known   *)
(* without scanning it.                                                    *)
(***************************************************************************)
\* a piece of a string: literal text, or a reference token with its index
Lit(text) == [ref |-> FALSE, text |-> text, idx |-> 0]
Tok(text, idx) == [ref |-> TRUE, text |-> text, idx |-> idx]

Pieces ==
    { Lit(<<"a">>), Lit(<<"$">>),
      Tok(<<"$", "1">>, 1), Tok(<<"$", "{", "2", "}">>, 2) }

\* the inputs: a string of pieces, an int, or a list of one-piece strings
StrIn(pieces) == [t |-> "str", pieces |-> pieces]
IntIn(n) == [t |-> "int", v |-> n]
ListIn(items) == [t |-> "list", items |-> items]

Inputs ==
    {StrIn(ps) : ps \in SeqsUpTo(Pieces, MaxPieces)}
        \cup {IntIn(5)}
        \cup {ListIn(items) : items \in SeqsUpTo({StrIn(<<pc>>) : pc \in Pieces}, MaxItems)}

\* the text of a string of pieces
TextOf(pieces) == Join([i \in 1 .. Len(pieces) |-> pieces[i].text])

\* the value that is passed to _resolve_arg
ValueOf(input) ==
    IF input.t = "str" THEN StrVal(TextOf(input.pieces))
    ELSE IF input.t = "int" THEN IntVal(input.v)
    ELSE ListVal([i \in 1 .. Len(input.items) |-> StrVal(TextOf(input.items[i].pieces))])

\* the Observations: plain text, and text that reads like a reference token
ObservationTexts == {<<"p">>, <<"q", "q">>, <<"$", "2">>}

ObservationMaps == UNION {[S -> ObservationTexts] : S \in SUBSET {1, 2}}

InitCall ==
    /\ chunks = <<>>
    /\ messages = <<>>
    /\ InitPass
    /\ \E input \in Inputs, obs \in ObservationMaps :
           call = Some([input |-> input, observations |-> obs, out |-> None])
    /\ stream = None
    /\ broker = None

\* the call returns
ResolveCall ==
    /\ call # None
    /\ call[1].out = None
    /\ call' = Some([call[1] EXCEPT
                       !.out = Some(_resolve_arg(ValueOf(call[1].input), call[1].observations))])
    /\ UNCHANGED <<broker, stream, chunks, messages, parser, pulled, pcMain, observations, originals,
                   task_names, futures, run, returned>>

NextCall == ResolveCall

SpecCall == InitCall /\ [][NextCall]_vars

(***************************************************************************)
(* The start of schedule_tasks alone, over histories with several          *)
(* FunctionMessages of one index and FunctionMessages without an index     *)
(***************************************************************************)
MaxHistory == 3

HistoryKinds ==
    HistoryMessages \cup
        { [type |-> "function", idx |-> Some(1), content |-> <<"q">>],
          [type |-> "function", idx |-> Some(2), content |-> <<"s">>],
          [type |-> "function", idx |-> None, content |-> <<"n">>] }

InitHistory ==
    /\ chunks = <<>>
    /\ messages \in SeqsUpTo(HistoryKinds, MaxHistory)
    /\ parser = ParserInit
    /\ pulled = <<>>
    /\ pcMain = "start"
    /\ observations = <<>>
    /\ originals = {}
    /\ task_names = <<>>
    /\ futures = <<>>
    /\ run = <<>>
    /\ returned = None
    /\ call = None
    /\ broker = None
    /\ stream = None

\* schedule_tasks, lines 104-109
StartPass ==
    /\ pcMain = "start"
    /\ observations' = _get_observations(messages)
    /\ originals' = DOMAIN _get_observations(messages)
    /\ pcMain' = "plan"
    /\ UNCHANGED <<broker, call, stream, chunks, messages, parser, pulled, task_names, futures, run,
                   returned>>

NextHistory == StartPass

SpecHistory == InitHistory /\ [][NextHistory]_vars

(***************************************************************************)
(* stream_with_timeout: the steps of the compiled graph, awaited one at a  *)
(* time under asyncio.wait_for. Time is counted in ticks. pc is "idle"     *)
(* at the top of the while loop, "step" while agen.__anext__() runs, and   *)
(* "closed" after a break; node is the node of the graph whose turn it is, *)
(* elapsed the time the awaited step has taken so far, events what the     *)
(* generator has yielded.                                                  *)
(***************************************************************************)
MaxTimeout == 2
MaxDuration == 3
MaxSteps == 2

S_plan_and_schedule == <<"p", "l", "a", "n", "_", "a", "n", "d", "_", "s", "c", "h", "e", "d", "u", "l", "e">>
S_END == <<"E", "N", "D">>

\* yield step, line 265
StepEvent(node, took) == [kind |-> "step", node |-> node, took |-> took]

\* the event of line 269
TimeoutEvent == [kind |-> "error", node |-> <<>>, took |-> 0]

InitStream ==
    /\ chunks = <<>>
    /\ messages = <<>>
    /\ InitPass
    /\ call = None
    /\ broker = None
    /\ \E timeout \in 0 .. MaxTimeout :
           stream = [pc |-> "idle", timeout |-> timeout, node |-> S_plan_and_schedule,
                     elapsed |-> 0, events |-> <<>>]

\* line 264 with timeout > 0: wait_for starts agen.__anext__(), which runs
\* the synchronous generator chain.stream in the thread of the event loop
WaitFor ==
    /\ stream.pc = "idle"
    /\ stream.timeout > 0
    /\ stream' = [stream EXCEPT !.pc = "step", !.elapsed = 0]
    /\ UNCHANGED <<broker, call, chunks, messages, parser, pulled, pcMain, observations, originals,
                   task_names, futures, run, returned>>

\* line 264 with timeout <= 0: wait_for cancels the awaitable before it has
\* run and raises TimeoutError; lines 268-270 yield the error event and break
WaitForExpired ==
    /\ stream.pc = "idle"
    /\ stream.timeout <= 0
    /\ stream' = [stream EXCEPT !.pc = "closed", !.events = Append(@, TimeoutEvent)]
    /\ UNCHANGED <<broker, call, chunks, messages, parser, pulled, pcMain, observations, originals,
                   task_names, futures, run, returned>>

\* lines 259-261: the step of the graph runs inside the for statement of
\* async_gen_wrapper, which awaits nothing: the event loop is blocked and
\* the timer of wait_for cannot fire while time passes
StepRuns ==
    /\ stream.pc = "step"
    /\ stream.node # S_END
    /\ stream.elapsed < MaxDuration
    /\ stream' = [stream EXCEPT !.elapsed = @ + 1]
    /\ UNCHANGED <<broker, call, chunks, messages, parser, pulled, pcMain, observations, originals,
                   task_names, futures, run, returned>>

\* the node after the one that gave its output: the edges of create_graph,
\* lines 239-246; final is isinstance(messages[-1], AIMessage)
NextNode(node, final) ==
    IF node = S_plan_and_schedule THEN S_join
    ELSE IF final THEN S_END
    ELSE S_plan_and_schedule

\* lines 260-261 and 264-265: chain.stream gives the output of the node,
\* __anext__ completes, wait_for returns it and the generator yields it
StepYields ==
    /\ stream.pc = "step"
    /\ stream.node # S_END
    /\ \E final \in BOOLEAN :
        /\ (Len(stream.events) + 1 >= MaxSteps) => final
        /\ stream' = [stream EXCEPT !.pc = "idle",
                                    !.node = NextNode(stream.node, final),
                                    !.events = Append(@, StepEvent(stream.node, stream.elapsed))]
    /\ UNCHANGED <<broker, call, chunks, messages, parser, pulled, pcMain, observations, originals,
                   task_names, futures, run, returned>>

\* lines 266-267: chain.stream is exhausted, StopAsyncIteration, break
StreamEnds ==
    /\ stream.pc = "step"
    /\ stream.node = S_END
    /\ stream' = [stream EXCEPT !.pc = "closed"]
    /\ UNCHANGED <<broker, call, chunks, messages, parser, pulled, pcMain, observations, originals,
                   task_names, futures, run, returned>>

NextStream ==
    \/ WaitFor
    \/ WaitForExpired
    \/ StepRuns
    \/ StepYields
    \/ StreamEnds

SpecStream == InitStream /\ [][NextStream]_vars

(***************************************************************************)
(* Properties                                                              *)
(***************************************************************************)
Positions == 1 .. Len(pulled)
Deps(n) == Range(pulled[n].dependencies)
Idxs(tasks) == [i \in 1 .. Len(tasks) |-> tasks[i].idx]
StrictlyIncreasing(q) == \A i, j \in 1 .. Len(q) : i < j => q[i] < q[j]
IsPrefix(a, b) == Len(a) <= Len(b) /\ Take(b, Len(a)) = a
HasReturned == returned # None
ReturnedIdxs == [i \in 1 .. Len(returned[1]) |-> returned[1][i].idx]
Failed(n) == run[n].outcome \in {"raised", "unresolved"}
UniqueIdx(m) ==
    /\ pulled[m].idx \notin originals
    /\ \A j \in Positions : j # m => pulled[j].idx # pulled[m].idx

\* C1: a task's arguments are resolved, and its capability is invoked, only
\* when every index of its dependency set is a key of the Observation map:
\* the keys seen at resolution time, and the keys during the invocation,
\* include the dependency set
C1_DepsBeforeInvoke ==
    \A n \in Positions :
        run[n].status \in {"invoking", "done"} =>
            /\ Deps(n) \subseteq run[n].seen
            /\ Deps(n) \subseteq DOMAIN observations

\* a deferred worker is invoking a task that has dependencies
C1_Witness ==
    \E n \in Positions :
        IsWorker(n) /\ run[n].status = "invoking" /\ Deps(n) # {}

\* C2 as stated: the returned indices are exactly the indices of the tasks
\* parsed in this pass
C2_Original ==
    HasReturned => Range(ReturnedIdxs) = Range(Idxs(pulled))

\* C2 amended: the returned indices are exactly the indices of the tasks
\* parsed in this pass that were not keys of the pre-seeded map
C2_ReturnedIndices ==
    HasReturned =>
        /\ parser.pc = "done"
        /\ Range(ReturnedIdxs) = Range(Idxs(pulled)) \ originals

\* a pass has returned some task, and another task had a pre-seeded index
C2_Witness ==
    /\ HasReturned
    /\ Len(returned[1]) >= 1
    /\ \E n \in Positions : pulled[n].idx \in originals

\* C3: the returned list is strictly increasing in the task index and holds
\* no key of the pre-seeded map
C3_SortedNew ==
    HasReturned =>
        /\ StrictlyIncreasing(ReturnedIdxs)
        /\ Range(ReturnedIdxs) \cap originals = {}

\* two tasks completed in decreasing index order, with a pre-seeded map
C3_Witness ==
    /\ HasReturned
    /\ Len(returned[1]) >= 2
    /\ originals # {}
    /\ Len(pulled) >= 2
    /\ pulled[1].idx > pulled[2].idx

\* C4: a failed invocation or a failed argument resolution stores a string
\* that begins with "ERROR:" under the task's index, the entry stays in the
\* map, and no exception other than the parser's leaves schedule_tasks
C4_FailureCaptured ==
    /\ \A n \in Positions :
           Failed(n) =>
               /\ run[n].wrote # None
               /\ StartsWith(run[n].wrote[1], S_ERROR)
               /\ pulled[n].idx \in DOMAIN observations
    /\ pcMain \in {"raising", "raised"} => parser.pc = "raised"

\* a pass has returned in which one invocation failed and one resolution failed
C4_Witness ==
    /\ HasReturned
    /\ \E n, m \in Positions : run[n].outcome = "raised" /\ run[m].outcome = "unresolved"

\* C5: when a task has failed, every finished task has its Observation, the
\* pass returns only after every task of the plan has run, a task whose own
\* capability returned stores its result and not an error, and a task that
\* depends on the failed task receives the error string in its arguments
C5_FailureContained ==
    (\E m \in Positions : Failed(m)) =>
        /\ \A n \in Positions :
               run[n].status = "done" => pulled[n].idx \in DOMAIN observations
        /\ HasReturned =>
               /\ pulled = parse(chunks).tasks
               /\ \A n \in Positions : run[n].status = "done" /\ run[n].wrote # None
        /\ \A n \in Positions :
               run[n].outcome = "returned" =>
                   /\ run[n].wrote = Some(ToolResult(pulled[n]))
                   /\ ~StartsWith(run[n].wrote[1], S_ERROR)
        /\ \A m, n \in Positions :
               (/\ Failed(m)
                /\ UniqueIdx(m)
                /\ pulled[m].idx \in Deps(n)
                /\ run[n].resolved # None) =>
                   \E key \in DOMAIN run[n].resolved[1] :
                       /\ run[n].resolved[1][key].t = "str"
                       /\ IndexOf(run[n].resolved[1][key].v, run[m].wrote[1]) > 0

\* task 1 failed, a task that depends on it and an independent task both
\* returned, and the pass has returned
C5_Witness ==
    /\ HasReturned
    /\ \E m, n, k \in Positions :
           /\ run[m].outcome = "raised"
           /\ UniqueIdx(m)
           /\ pulled[m].idx \in Deps(n)
           /\ run[n].outcome = "returned"
           /\ k # m
           /\ pulled[m].idx \notin Deps(k)
           /\ run[k].outcome = "returned"

\* second, the next task of the sequence if any, has its dependencies
\* satisfied and does not depend on a task whose invocation is in flight
NextIsIndependent(second) ==
    /\ second # None
    /\ ~DepsMissing(second[1], observations)
    /\ \A n \in Positions :
           run[n].status = "invoking" => pulled[n].idx \notin Range(second[1].dependencies)

\* C6: of two independent tasks whose dependencies are satisfied, the second
\* is started without waiting for the first: while the invocation of the
\* first is in flight and the second is the next task of the sequence,
\* schedule_tasks is not blocked in the call of the first
C6_ParallelDispatch ==
    (/\ \E n \in Positions : ~IsWorker(n) /\ run[n].status = "invoking"
     /\ NextIsIndependent(NextTask(parser, chunks).out)) =>
        pcMain # "exec"

\* C7: when schedule_tasks returns, no task is executing, polling or queued,
\* and every task pulled from the sequence has written its Observation
C7_ReturnsAfterWorkers ==
    HasReturned =>
        \A n \in Positions :
            /\ run[n].status = "done"
            /\ run[n].wrote # None
            /\ pulled[n].idx \in DOMAIN observations

\* a pass has returned that had a deferred worker and a task run by the loop
C7_Witness ==
    /\ HasReturned
    /\ Len(futures) >= 1
    /\ \E n \in Positions : ~IsWorker(n)

\* the main thread waits for the workers, and every unfinished worker is in
\* (or about to enter) the polling loop with a dependency missing: no thread
\* can write an Observation any more, so the workers sleep and poll forever
PollsForever ==
    /\ pcMain \in {"wait", "raising"}
    /\ ~AllFuturesDone
    /\ \A n \in Positions :
           (IsWorker(n) /\ run[n].status # "done") =>
               /\ run[n].status \in {"queued", "polling"}
               /\ DepsMissing(pulled[n], observations)

\* C8: schedule_tasks terminates on every finite plan: the scheduler never
\* gets into a state in which its workers poll forever
C8_NeverPollsForever == ~PollsForever

\* the stream over the chunks gave what whole is
StreamGave(whole) ==
    /\ pulled = whole.tasks
    /\ (parser.pc = "raised") = whole.raised

\* C9: when the stream has ended, the tasks emitted for the chunks are the
\* tasks emitted for the whole text fed as one chunk, equal in every field
C9_StreamingEquivalence ==
    parser.pc \in {"done", "raised"} => StreamGave(parse(<<Join(chunks)>>))

\* the numbers declared by the action lines of a text, in line order, up to
\* the first line that names an unknown capability
RECURSIVE DeclaredFrom(_)
DeclaredBy(act, lines) ==
    IF THOUGHT_PATTERN(Head(lines)) # None \/ act = None
    THEN DeclaredFrom(Tail(lines))
    ELSE IF /\ act[1].tool_name # S_join
            /\ \A i \in 1 .. Len(Tools) : Tools[i].name # act[1].tool_name
    THEN <<>>
    ELSE <<ParseInt(act[1].idx)>> \o DeclaredFrom(Tail(lines))

DeclaredFrom(lines) ==
    IF Len(lines) = 0 THEN <<>> ELSE DeclaredBy(ACTION_PATTERN(Head(lines)), lines)

Declared == DeclaredFrom(SplitLines(Join(chunks)))

\* C10 as stated: the indices of the emitted tasks are strictly increasing
C10_Original == StrictlyIncreasing(Idxs(pulled))

\* C10 amended: the indices of the emitted tasks are, in emission order, the
\* numbers declared by the action lines of the text in line order; they are
\* strictly increasing when the declared numbers are
C10_IndicesAsDeclared ==
    /\ IsPrefix(Idxs(pulled), Declared)
    /\ parser.pc \in {"done", "raised"} => Idxs(pulled) = Declared
    /\ StrictlyIncreasing(Declared) => StrictlyIncreasing(Idxs(pulled))

\* the stream has ended with two tasks emitted from a text cut into chunks
C10_Witness ==
    /\ parser.pc = "done"
    /\ Len(chunks) >= 2
    /\ Len(pulled) = 2
    /\ pulled[1].idx < pulled[2].idx

\* C11: every index in the dependency set of an emitted task is at least 1
\* and strictly less than the task's own index
C11_DepsBelowIndex ==
    \A n \in Positions :
        \A d \in Deps(n) : 1 <= d /\ d < pulled[n].idx

IsJoin(n) == ~pulled[n].tool.isTool

C13_JoinIsLast ==
    \A n \in Positions :
        IsJoin(n) =>
            /\ n = Len(pulled)
            /\ \A m \in Positions : n < m => run[m].calls = 0

\* C14: in one pass the capability of each pulled task is invoked at most
\* once, whether the loop ran the task or a deferred worker did
C14_InvokedAtMostOnce ==
    \A n \in Positions : run[n].calls <= 1

\* a pass has returned in which the loop invoked one task and a deferred
\* worker, after it had waited for its dependency, invoked another
C14_Witness ==
    /\ HasReturned
    /\ \E n, m \in Positions :
           /\ IsWorker(n) /\ pulled[n].tool.isTool /\ run[n].calls = 1
           /\ ~IsWorker(m) /\ pulled[m].tool.isTool /\ run[m].calls = 1
           /\ n < m

\* C15: in one pass the entry of each task index is written exactly once:
\* no task writes an index that was pre-seeded from the history, and no two
\* tasks write the same index
C15_WrittenOnce ==
    \A n \in Positions :
        run[n].wrote # None =>
            /\ pulled[n].idx \notin originals
            /\ \A m \in Positions :
                   (m # n /\ run[m].wrote # None) => pulled[m].idx # pulled[n].idx

\* the values the entry of index i has had in this pass
ValuesOf(i) ==
    {_get_observations(messages)[j] : j \in {i} \cap originals}
        \cup {run[m].wrote[1] : m \in {k \in Positions : pulled[k].idx = i /\ run[k].wrote # None}}

\* some reference token, $N or ${N}, occurs in the text s
HasToken(s) ==
    \E i \in 1 .. (Len(s) - 1) :
        /\ s[i] = "$"
        /\ \/ s[i + 1] \in Digits
           \/ s[i + 1] = "{" /\ i + 2 <= Len(s) /\ s[i + 2] \in Digits

ExpectedText(pieces, obs) ==
    Join([i \in 1 .. Len(pieces) |->
             IF pieces[i].ref /\ pieces[i].idx \in DOMAIN obs
             THEN obs[pieces[i].idx]
             ELSE pieces[i].text])

Expected(input, obs) ==
    IF input.t = "str" THEN StrVal(ExpectedText(input.pieces, obs))
    ELSE IF input.t = "int" THEN IntVal(input.v)
    ELSE ListVal([i \in 1 .. Len(input.items) |->
                     StrVal(ExpectedText(input.items[i].pieces, obs))])

\* the input holds no reference token
NoTokens(input) ==
    IF input.t = "str" THEN \A i \in 1 .. Len(input.pieces) : ~input.pieces[i].ref
    ELSE IF input.t = "int" THEN TRUE
    ELSE \A i \in 1 .. Len(input.items) :
             \A j \in 1 .. Len(input.items[i].pieces) : ~input.items[i].pieces[j].ref

Returned == call # None /\ call[1].out # None

\* two values of the same type that are equal
SameValue(a, b) == a.t = b.t /\ a.v = b.v

\* C17: for a string without reference tokens, a list of such strings and a
\* scalar that is not a string, and every Observation map, _resolve_arg
\* returns the value unchanged
C17_IdentityWithoutTokens ==
    (Returned /\ NoTokens(call[1].input)) =>
        SameValue(call[1].out[1], ValueOf(call[1].input))

\* _resolve_arg has returned for a list of two strings without tokens, one
\* of them with a dollar sign, and a map with two entries
C17_Witness ==
    /\ Returned
    /\ NoTokens(call[1].input)
    /\ call[1].input.t = "list"
    /\ Len(call[1].input.items) = 2
    /\ \E i \in 1 .. 2 : call[1].input.items[i].pieces = <<Lit(<<"$">>)>>
    /\ DOMAIN call[1].observations = {1, 2}

\* C18: in what _resolve_arg returns, a token whose index has no entry in
\* the map is left as its text, and the tokens of the same string whose
\* index has an entry are replaced by the entry
C18_MissingLeftLiteral ==
    Returned => call[1].out[1] = Expected(call[1].input, call[1].observations)

\* _resolve_arg has returned for a string with a token whose index has an
\* entry and a token whose index has none
C18_Witness ==
    /\ Returned
    /\ call[1].input.t = "str"
    /\ \E i, j \in 1 .. Len(call[1].input.pieces) :
           /\ call[1].input.pieces[i].ref
           /\ call[1].input.pieces[i].idx \in DOMAIN call[1].observations
           /\ call[1].input.pieces[j].ref
           /\ call[1].input.pieces[j].idx \notin DOMAIN call[1].observations

\* some pulled task refers to an index outside [1, own index) or to an
\* index that no task of the plan and no message of the history produces
BadReference ==
    \E n \in Positions :
        \E d \in Deps(n) :
            \/ d < 1
            \/ d >= pulled[n].idx
            \/ /\ d \notin originals
               /\ \A k \in 1 .. Len(parse(chunks).tasks) : parse(chunks).tasks[k].idx # d

\* C19: a plan line that names a capability that is not in the registry
\* raises no error to the caller of the pass
C19_UnknownCapabilityAbsorbed ==
    pcMain \notin {"raising", "raised"}

\* C20: for a plan in which a task refers to an index outside the valid
\* range, or to an index that nothing produces, no capability is invoked
C20_BadReferenceRejected ==
    BadReference => \A m \in Positions : run[m].calls = 0

UnknownTool(act) ==
    /\ act[1].tool_name # S_join
    /\ \A i \in 1 .. Len(Tools) : Tools[i].name # act[1].tool_name

\* the reasoning each action line of a text is to carry, in line order, up
\* to the first line that names an unknown capability: the most recent
\* Thought line since the previous action line, None if there is none
RECURSIVE ThoughtsFrom(_, _)
ThoughtsBy(th, act, lines, thought) ==
    IF th # None THEN ThoughtsFrom(Tail(lines), Some(th[1]))
    ELSE IF act = None THEN ThoughtsFrom(Tail(lines), thought)
    ELSE IF UnknownTool(act) THEN <<>>
    ELSE <<thought>> \o ThoughtsFrom(Tail(lines), None)

ThoughtsFrom(lines, thought) ==
    IF Len(lines) = 0 THEN <<>>
    ELSE ThoughtsBy(THOUGHT_PATTERN(Head(lines)), ACTION_PATTERN(Head(lines)), lines, thought)

Thoughts(tasks) == [i \in 1 .. Len(tasks) |-> tasks[i].thought]

\* C21: when the stream has ended, each emitted task carries the most recent
\* Thought line that precedes its action line and follows the previous
\* action line, whether or not the action line ends with a newline
C21_ThoughtAttached ==
    parser.pc \in {"done", "raised"} =>
        Thoughts(pulled) = ThoughtsFrom(SplitLines(Join(chunks)), None)

\* the content returned for the task at position n, if a message carries its index
ReturnedAs(n, content) ==
    \E i \in 1 .. Len(returned[1]) :
        /\ returned[1][i].idx = pulled[n].idx
        /\ returned[1][i].content = content

\* C22: the join sentinel is never invoked: a join task makes no tool call,
\* what it records under its index is the string "join", and that string is
\* what the pass returns for the index
C22_JoinNeverInvoked ==
    \A n \in Positions :
        IsJoin(n) =>
            /\ run[n].calls = 0
            /\ run[n].status = "done" => run[n].wrote = Some(S_join)
            /\ (HasReturned /\ run[n].status = "done" /\ UniqueIdx(n)) =>
                   ReturnedAs(n, S_join)

\* a pass has returned the Observation of a join task that ran after another task
C22_Witness ==
    /\ HasReturned
    /\ Len(returned[1]) >= 2
    /\ \E n \in Positions :
        /\ IsJoin(n)
        /\ UniqueIdx(n)
        /\ run[n].status = "done"
        /\ ReturnedAs(n, S_join)

\* the matches of ACTION_PATTERN on the action lines of a text, in line order
RECURSIVE ActsOf(_)
ActsBy(th, act, lines) ==
    IF th = None /\ act # None THEN <<act[1]>> \o ActsOf(Tail(lines))
    ELSE ActsOf(Tail(lines))

ActsOf(lines) ==
    IF Len(lines) = 0 THEN <<>>
    ELSE ActsBy(THOUGHT_PATTERN(Head(lines)), ACTION_PATTERN(Head(lines)), lines)

PlanActs == ActsOf(SplitLines(Join(chunks)))

\* C23: a join task whose argument text is not empty has an argument
\* mapping of exactly one key, and the value of that key is the whole raw
\* argument text
C23_JoinFallbackKey ==
    \A n \in Positions :
        (n <= Len(PlanActs) /\ IsJoin(n) /\ PlanActs[n].args # <<>>) =>
            /\ Cardinality(DOMAIN pulled[n].args) = 1
            /\ \A k \in DOMAIN pulled[n].args :
                   Str(pulled[n].args[k]) = PlanActs[n].args

\* the text after an optional "{"
AfterBrace(r) == IF Len(r) > 0 /\ r[1] = "{" THEN Drop(r, 1) ELSE r

\* the digits that follow position i of s, past an optional "{"
DigitsAt(s, i) ==
    Take(AfterBrace(Drop(s, i)), SpanLen(AfterBrace(Drop(s, i)), Digits))

\* the indices of the reference tokens $N and ${N} of a string
TokenSet(s) ==
    {ParseInt(DigitsAt(s, i)) :
        i \in {j \in 1 .. Len(s) : s[j] = "$" /\ DigitsAt(s, j) # <<>>}}

ReferencedBy(n) == UNION {TokenSet(Str(pulled[n].args[k])) : k \in DOMAIN pulled[n].args}

\* C24: the dependency list of a task that is not a join is strictly
\* increasing, so sorted and without duplicates, and its members are exactly
\* the indices of the reference tokens in the task's parsed argument values
C24_DepsAreReferences ==
    \A n \in Positions :
        ~IsJoin(n) =>
            /\ StrictlyIncreasing(pulled[n].dependencies)
            /\ Deps(n) = ReferencedBy(n)

\* a task whose argument values hold the tokens ${2}, $1 and $2, in that
\* order over two arguments, has been emitted with the dependencies 1, 2
C24_Witness ==
    \E n \in Positions :
        /\ ~IsJoin(n)
        /\ Cardinality(DOMAIN pulled[n].args) = 2
        /\ \E k \in DOMAIN pulled[n].args :
               IndexOf(Str(pulled[n].args[k]), <<"$", "{", "2", "}", " ", "$", "1">>) > 0
        /\ pulled[n].dependencies = <<1, 2>>

\* the line matches the reasoning pattern or the action pattern
Matches(line) == THOUGHT_PATTERN(line) # None \/ ACTION_PATTERN(line) # None

\* the elements of text.split("\n") without the lines that match neither
\* pattern; the last element is the text after the last newline
RECURSIVE KeepMatching(_)
KeepMatching(ls) ==
    IF Len(ls) = 1 THEN <<IF Matches(ls[1]) THEN ls[1] ELSE <<>> >>
    ELSE (IF Matches(Head(ls)) THEN <<Head(ls)>> ELSE <<>>) \o KeepMatching(Tail(ls))

\* "\n".join(ls)
RECURSIVE JoinLines(_)
JoinLines(ls) ==
    IF Len(ls) = 1 THEN ls[1] ELSE ls[1] \o <<NL>> \o JoinLines(Tail(ls))

\* the text without its lines that match neither pattern
MatchingText == JoinLines(KeepMatching(SplitLines(Join(chunks))))

\* the emitted tasks are those of the action lines, one each, in line order
OnePerActionLine ==
    /\ Len(pulled) = Len(PlanActs)
    /\ \A n \in Positions :
        /\ pulled[n].idx = ParseInt(PlanActs[n].idx)
        /\ pulled[n].tool.name = PlanActs[n].tool_name

\* C25: a line that matches neither pattern is ignored without error:
\* _parse_task gives no task for it and returns the thought it was given,
\* the stream emits what it emits for the text without such lines, and when
\* it ends without error there is exactly one task per action line, in the
\* order of the lines
C25_NonMatchingIgnored ==
    /\ \A line \in Range(SplitLines(Join(chunks))), th \in {None, Some(<<"t">>)} :
        ~Matches(line) =>
            _parse_task(line, th) = [task |-> None, thought |-> th, raised |-> FALSE]
    /\ parser.pc \in {"done", "raised"} => StreamGave(parse(<<MatchingText>>))
    /\ parser.pc = "done" => OnePerActionLine

\* a text with a Thought line, then a line that matches neither pattern,
\* then an action line has been parsed, and the task carries the thought
C25_Witness ==
    /\ parser.pc = "done"
    /\ Len(pulled) = 1
    /\ pulled[1].thought = Some(<<"t">>)
    /\ Len(SplitLines(Join(chunks))) = 4
    /\ ~Matches(SplitLines(Join(chunks))[2])
    /\ SplitLines(Join(chunks))[2] # <<>>

\* the lines of the chunks taken so far that a newline has completed
CompleteLines ==
    Take(SplitLines(Join(Take(chunks, parser.ci))),
         Len(SplitLines(Join(Take(chunks, parser.ci)))) - 1)

\* C26: a task is emitted for an action line only once the line is
\* complete: before the end of the stream the emitted tasks are those of
\* lines that a newline has completed in the chunks taken so far; when the
\* stream has ended, the text after the last newline has been classified
\* like a line, so that every action line has given its task exactly once
C26_CompleteLinesOnly ==
    /\ parser.pc \notin {"done", "raised"} =>
           IsPrefix(Idxs(pulled), DeclaredFrom(CompleteLines))
    /\ parser.pc = "done" => Idxs(pulled) = Declared

\* the stream has ended on an unterminated action line that was cut in two
\* by a chunk boundary, and the line has given its task
C26_Witness ==
    /\ parser.pc = "done"
    /\ Len(chunks) = 2
    /\ Len(chunks[2]) > 0
    /\ IndexOf(chunks[2], <<NL>>) = 0
    /\ ACTION_PATTERN(chunks[2]) = None
    /\ ACTION_PATTERN(SplitLines(Join(chunks))[Len(SplitLines(Join(chunks)))]) # None
    /\ Len(pulled) = 2
    /\ Idxs(pulled) = Declared

\* the tasks without their reasoning field
Bare(tasks) ==
    [i \in 1 .. Len(tasks) |->
        [idx |-> tasks[i].idx, tool |-> tasks[i].tool, args |-> tasks[i].args,
         dependencies |-> tasks[i].dependencies]]

StreamGaveBare(whole) ==
    /\ Bare(pulled) = Bare(whole.tasks)
    /\ (parser.pc = "raised") = whole.raised

\* C30: the reasoning field apart, parsing does not depend on the chunking:
\* when the stream has ended, the index, capability, arguments and
\* dependencies of the emitted tasks are those emitted for the whole text
\* fed as one chunk
C30_ChunkingIndependent ==
    parser.pc \in {"done", "raised"} => StreamGaveBare(parse(<<Join(chunks)>>))

\* a text cut inside a line has been parsed to its end: its tasks differ
\* from those of the whole text in the reasoning field only
C30_Witness ==
    /\ parser.pc = "done"
    /\ Len(chunks) = 2
    /\ Len(chunks[1]) > 0
    /\ chunks[1][Len(chunks[1])] # NL
    /\ Len(pulled) >= 1
    /\ pulled # parse(<<Join(chunks)>>).tasks
    /\ Bare(pulled) = Bare(parse(<<Join(chunks)>>).tasks)

\* C28: the Observations a pass finds in the history, such as those an
\* abandoned pass had written, are pre-seeded and their tasks are not run
\* again: no capability is invoked for a task whose index is pre-seeded
C28_SeededNotRerun ==
    \A n \in Positions :
        pulled[n].idx \in originals => run[n].calls = 0

\* the task at position n is in the queue of the executor with every
\* dependency satisfied, and cannot start: every thread of the pool is held
\* by a task submitted before it that polls for a missing dependency, and
\* the main thread, past its loop, waits for the futures, so that no thread
\* will write an Observation any more
Starved(n) ==
    /\ IsWorker(n)
    /\ run[n].status = "queued"
    /\ ~DepsMissing(pulled[n], observations)
    /\ pcMain \in {"wait", "raising"}
    /\ Cardinality(Active) = max_workers
    /\ \A m \in Active :
        /\ m < n
        /\ run[m].status = "polling"
        /\ DepsMissing(pulled[m], observations)

\* C27: a task whose dependencies are all satisfied is not kept from
\* starting by tasks that wait for their dependencies: no task is ever
\* left in the queue for good behind waiting tasks
C27_NotStarved == \A n \in Positions : ~Starved(n)

\* C29: stream_with_timeout enforces its timeout on every step: no step is
\* awaited for longer than the timeout, no output of a step is yielded that
\* took longer than the timeout, and nothing is yielded after the error event
C29_TimeoutEnforced ==
    /\ stream.pc = "step" => stream.elapsed <= stream.timeout
    /\ \A i \in 1 .. Len(stream.events) :
        /\ stream.events[i].kind = "step" => stream.events[i].took <= stream.timeout
        /\ stream.events[i].kind = "error" => i = Len(stream.events)

\* every dependency of the task at position n is pre-seeded or is the index
\* of a task earlier in the sequence
EarlierOrSeeded(n) ==
    \A d \in Deps(n) : d \in originals \/ \E m \in 1 .. (n - 1) : pulled[m].idx = d

\* the tasks pulled so far were run by the loop, one after the other
RunByLoopInOrder ==
    /\ futures = <<>>
    /\ \A n \in 1 .. (Len(pulled) - 1) : run[n].status = "done"

\* C31 as stated: a task is handed to a deferred worker only if one of its
\* dependencies is neither pre-seeded nor the index of an earlier task
C31_Original == \A n \in Positions : IsWorker(n) => ~EarlierOrSeeded(n)

\* C31 amended: a task is handed to a deferred worker only if one of its
\* dependencies is neither pre-seeded nor the index of an earlier task that
\* the loop ran itself; when every dependency of every task refers to an
\* earlier task or is pre-seeded, every task is run by the loop, in sequence
\* order, and a task is pulled only when the one before it has finished
C31_DeferredOnlyIfUnwritten ==
    /\ \A n \in Positions :
        IsWorker(n) =>
            \E d \in Deps(n) :
                /\ d \notin originals
                /\ \A m \in 1 .. (n - 1) : pulled[m].idx = d => IsWorker(m)
    /\ (\A n \in Positions : EarlierOrSeeded(n)) => RunByLoopInOrder

\* a pass over three tasks that depend on earlier tasks has returned
\* without a worker
C31_Witness ==
    /\ HasReturned
    /\ Len(pulled) = 3
    /\ \E n \in Positions : Deps(n) # {}
    /\ \A n \in Positions : EarlierOrSeeded(n) /\ run[n].status = "done"
    /\ futures = <<>>

\* p occurs in s at position i, within s
OccursAt(s, p, i) == i + Len(p) - 1 <= Len(s) /\ Occurs(s, p, i)

\* in the string out, the Observation of each token of pieces whose index
\* has an entry stands as it is, at the place of the token
SubstitutedVerbatim(pieces, obs, out) ==
    \A i \in 1 .. Len(pieces) :
        (pieces[i].ref /\ pieces[i].idx \in DOMAIN obs) =>
            OccursAt(out, obs[pieces[i].idx],
                     1 + Len(ExpectedText(Take(pieces, i - 1), obs)))

\* C32: reference resolution is a single pass: the text substituted for a
\* token is in the result as it is, also when it reads like a token whose
\* index has an Observation
C32_SinglePass ==
    (Returned /\ call[1].input.t = "str") =>
        /\ call[1].out[1].t = "str"
        /\ SubstitutedVerbatim(call[1].input.pieces, call[1].observations,
                               call[1].out[1].v)

\* "$1" has been resolved against a map in which the Observation of index 1
\* is the text $2 and index 2 has an Observation: the result is the text $2
C32_Witness ==
    /\ Returned
    /\ call[1].input = StrIn(<<Tok(<<"$", "1">>, 1)>>)
    /\ DOMAIN call[1].observations = {1, 2}
    /\ call[1].observations[1] = <<"$", "2">>
    /\ call[1].out[1] = StrVal(<<"$", "2">>)

\* C33: dependency extraction and reference resolution agree: when the
\* arguments of a task have been resolved with every referenced index in the
\* map, no reference token is left in the text of any argument the capability
\* receives, whether the argument is a string, a list or a dict
C33_ExtractionMatchesResolution ==
    \A n \in Positions :
        run[n].resolved # None =>
            \A key \in DOMAIN pulled[n].args :
                TokenSet(Str(pulled[n].args[key])) \subseteq run[n].seen =>
                    ~HasToken(Str(run[n].resolved[1][key]))

\* C34: a pass leaves the pre-seeded Observations as they were: the value
\* under every index that was in the map when the pass started is the
\* pre-seeded value
C34_SeededUnchanged ==
    \A i \in originals : observations[i] = _get_observations(messages)[i]

\* the messages that give an Observation for index i, by position
Carriers(i) ==
    {k \in 1 .. Len(messages) :
        messages[k].type = "function" /\ messages[k].idx = Some(i)}

\* C35: the pre-seeded map has an entry for exactly the indices carried by a
\* FunctionMessage of the history, and the entry is the content of the
\* earliest FunctionMessage that carries the index
C35_EarliestWins ==
    pcMain = "plan" =>
        /\ \A i \in 1 .. 2 : i \in DOMAIN observations <=> Carriers(i) # {}
        /\ DOMAIN observations \subseteq 1 .. 2
        /\ \A i \in DOMAIN observations : observations[i] = messages[Min(Carriers(i))].content

\* the map has been built from a history with two FunctionMessages of index
\* 1 that differ in content, and a FunctionMessage without an index
C35_Witness ==
    /\ pcMain = "plan"
    /\ Cardinality(Carriers(1)) = 2
    /\ messages[Min(Carriers(1))].content # messages[Max(Carriers(1))].content
    /\ \E k \in 1 .. Len(messages) : messages[k].type = "function" /\ messages[k].idx = None
    /\ observations[1] = messages[Min(Carriers(1))].content

\* C36: when OutputParserException has left the pass, every task of a line
\* before the unknown capability has been pulled and has finished, the
\* capability of each task that got as far as its invocation has been
\* invoked, and nothing has been returned
C36_RaisedAfterEarlierTasks ==
    pcMain = "raised" =>
        /\ Idxs(pulled) = Declared
        /\ \A n \in Positions :
            /\ run[n].status = "done"
            /\ run[n].outcome \in {"returned", "raised"} => run[n].calls = 1
        /\ returned = None

\* the exception has left a pass in which a deferred task and a task run by
\* the loop had their capabilities invoked and wrote their Observations
C36_Witness ==
    /\ pcMain = "raised"
    /\ returned = None
    /\ \E n, m \in Positions :
        /\ IsWorker(n) /\ run[n].calls = 1
        /\ ~IsWorker(m) /\ run[m].calls = 1
        /\ pulled[n].idx \in DOMAIN observations \ originals

(***************************************************************************)
(* secure_message_broker.py: MessageBroker                                 *)
(***************************************************************************)
\* self.max_rate (line 88) and the default of SecureMessage.ttl (line 52)
max_rate == 100
DefaultTtl == 600

MaxPublishes == 2
MaxSubscribes == 2
MaxClock == 1

Senders == {"agent_1", "agent_2"}
\* two of the values of MessageType (lines 20-24)
MessageTypes == {"trust_update", "agent_result"}
\* the topic names a caller passes: a type value and another name
Topics == {"trust_update", "chat"}
Callbacks == {"f", "g"}

\* the fields of SecureMessage that have no default (lines 43-50)
RequiredFields ==
    {"message_id", "sender_id", "recipient_id", "message_type", "payload",
     "timestamp", "signature", "encryption_key_id"}

\* the keyword arguments of the SecureMessage(...) call of _handle_error
ErrorMessageFields ==
    {"message_id", "sender_id", "recipient_id", "message_type", "payload"}

\* a message; signature_valid is what security.verify_signature(payload,
\* signature) returns for it
SecureMessage(id, sender, type, valid, timestamp, priority) ==
    [message_id |-> id, sender_id |-> sender, message_type |-> type,
     signature_valid |-> valid, timestamp |-> timestamp, priority |-> priority,
     ttl |-> DefaultTtl]

\* a coroutine publish(topic, message) that has been called at second `at`
PublishCall(topic, message, at) ==
    [topic |-> topic, message |-> message, at |-> at, pc |-> "running", error |-> "",
     delivering |-> 0, current |-> "", visited |-> {}, size |-> 0]

\* MessageBroker.__init__, and what max_rate - 1 publish calls with an
\* invalid signature leave of it: they raise the counter of the sender and
\* nothing else
MessageBroker(counts) ==
    [subscribers |-> [t \in Topics \cup MessageTypes |-> {}],
     message_history |-> [t \in MessageTypes |-> <<>>],
     rate_limits |-> counts,
     message_queue |-> {},
     now |-> 0,
     before |-> counts,
     calls |-> <<>>,
     handles |-> <<>>,
     delivered |-> <<>>]

InitBroker ==
    /\ chunks = <<>>
    /\ messages = <<>>
    /\ InitPass
    /\ call = None
    /\ stream = None
    /\ broker = MessageBroker([s \in Senders |-> IF s = "agent_1" THEN max_rate - 1 ELSE 0])

\* the coroutine has left publish: it returned, or an exception went to its caller
Left(b, k, outcome) == [b EXCEPT !.calls[k].pc = outcome]

\* lines 222-228: the SecureMessage(...) call raises TypeError when a field
\* without default is not given; otherwise _handle_error returns and so does
\* publish
_handle_error(b, k, error) ==
    Left([b EXCEPT !.calls[k].error = error], k,
             IF RequiredFields \subseteq ErrorMessageFields THEN "returned" ELSE "TypeError")

\* lines 189-191
_check_rate_limit(b, sender_id) == ~(b.rate_limits[sender_id] >= max_rate)

\* line 192
Counted(b, sender_id) == [b EXCEPT !.rate_limits[sender_id] = @ + 1]

\* lines 208-209
_is_message_expired(b, message) == (b.now - message.timestamp) > message.ttl

\* lines 115-117: the entry (priority, encrypted_payload, message)
put(b, message) ==
    [b EXCEPT !.message_queue = @ \cup {[priority |-> message.priority, message |-> message]}]

\* PriorityQueue.get: heappop returns a smallest entry; entries of the same
\* priority are ordered by their encrypted payloads
Heads(queue) == {e \in queue : \A o \in queue : e.priority <= o.priority}

Taken(b, e) == [b EXCEPT !.message_queue = @ \ {e}]

\* line 137
Recorded(b, message) ==
    [b EXCEPT !.message_history[message.message_type] = Append(@, message)]

\* line 175: the task of subscriber c has been created and the coroutine
\* waits for it
Awaiting(b, k, message_id, c, visited, size) ==
    [b EXCEPT !.calls[k] = [@ EXCEPT !.pc = "notify", !.delivering = message_id,
                                     !.current = c, !.visited = visited \cup {c},
                                     !.size = size]]

RECURSIVE _process_message_queue(_, _)

\* lines 172-175, up to the first await: the broker states the coroutine can
\* be in when it next gives up control
_notify_subscribers(b, k, message) ==
    IF b.subscribers[message.message_type] = {}
    THEN _process_message_queue(b, k)
    ELSE {Awaiting(b, k, message.message_id, c, {},
                   Cardinality(b.subscribers[message.message_type])) :
            c \in b.subscribers[message.message_type]}

\* lines 134-139 for the entry e
ProcessEntry(b, k, e) ==
    IF _is_message_expired(b, e.message)
    THEN _process_message_queue(Taken(b, e), k)
    ELSE _notify_subscribers(Recorded(Taken(b, e), e.message), k, e.message)

\* lines 133-139
_process_message_queue(b, k) ==
    IF b.message_queue = {}
    THEN {Left(b, k, "returned")}
    ELSE UNION {ProcessEntry(b, k, e) : e \in Heads(b.message_queue)}

\* lines 109-121 for the call k, up to the first await that gives up control
publish(b, k) ==
    IF ~_check_rate_limit(b, b.calls[k].message.sender_id)
    THEN {_handle_error(b, k, "Rate limit exceeded")}
    ELSE IF ~b.calls[k].message.signature_valid
    THEN {_handle_error(Counted(b, b.calls[k].message.sender_id), k,
                        "Invalid message signature")}
    ELSE _process_message_queue(
             put(Counted(b, b.calls[k].message.sender_id), b.calls[k].message), k)

\* the for statement of line 173 asks the set iterator for the next
\* subscriber: RuntimeError when the set has changed its size, which leaves
\* _notify_subscribers and is caught in line 120
NextSubscriber(b, k, type) ==
    IF Cardinality(b.subscribers[type]) # b.calls[k].size
    THEN {_handle_error(b, k, "Set changed size during iteration")}
    ELSE IF b.subscribers[type] \ b.calls[k].visited = {}
    THEN _process_message_queue(b, k)
    ELSE {Awaiting(b, k, b.calls[k].delivering, c, b.calls[k].visited, b.calls[k].size) :
            c \in b.subscribers[type] \ b.calls[k].visited}

\* the task of line 175 runs subscriber(message)
CalledBack(b, k) ==
    [b EXCEPT !.delivered = Append(@, [callback |-> b.calls[k].current,
                                       message_id |-> b.calls[k].delivering])]

\* the messages a caller publishes, as sender, type, verdict of
\* verify_signature, age in seconds and priority: every field takes two values
Published ==
    {<<"agent_1", "trust_update", TRUE, 0, 0>>,
     <<"agent_2", "trust_update", TRUE, 0, 1>>,
     <<"agent_1", "agent_result", FALSE, 0, 1>>,
     <<"agent_2", "agent_result", TRUE, DefaultTtl + 1, 0>>}

\* await broker.publish(topic, message)
Publish ==
    /\ Len(broker.calls) < MaxPublishes
    /\ \E topic \in Topics, m \in Published :
           broker' \in publish(
               [broker EXCEPT !.calls = Append(@,
                   PublishCall(topic,
                               SecureMessage(Len(broker.calls) + 1, m[1], m[2], m[3],
                                             broker.now - m[4], m[5]),
                               broker.now))],
               Len(broker.calls) + 1)
    /\ UNCHANGED <<call, stream, chunks, messages, parser, pulled, pcMain, observations, originals,
                   task_names, futures, run, returned>>

\* the task created in line 175 runs and the coroutine that awaits it goes on
Deliver ==
    /\ \E k \in 1 .. Len(broker.calls) :
        /\ broker.calls[k].pc = "notify"
        /\ broker' \in NextSubscriber(CalledBack(broker, k), k,
                                      broker.calls[broker.calls[k].delivering].message.message_type)
    /\ UNCHANGED <<call, stream, chunks, messages, parser, pulled, pcMain, observations, originals,
                   task_names, futures, run, returned>>

\* broker.subscribe(topic, callback), lines 155-159; the handle is the
\* unsubscribe function it returns
Subscribe ==
    /\ Len(broker.handles) < MaxSubscribes
    /\ \E topic \in Topics, callback \in Callbacks :
           broker' = [broker EXCEPT
                        !.subscribers[topic] = @ \cup {callback},
                        !.handles = Append(@, [topic |-> topic, callback |-> callback,
                                               since |-> Len(broker.calls), until |-> -1])]
    /\ UNCHANGED <<call, stream, chunks, messages, parser, pulled, pcMain, observations, originals,
                   task_names, futures, run, returned>>

\* a call of an unsubscribe function, line 158
Unsubscribe ==
    /\ \E h \in 1 .. Len(broker.handles) :
        /\ broker.handles[h].until = -1
        /\ broker' = [broker EXCEPT
                        !.subscribers[broker.handles[h].topic] = @ \ {broker.handles[h].callback},
                        !.handles[h].until = Len(broker.calls)]
    /\ UNCHANGED <<call, stream, chunks, messages, parser, pulled, pcMain, observations, originals,
                   task_names, futures, run, returned>>

\* a second goes by on the clock datetime.now() reads
Tick ==
    /\ broker.now < MaxClock
    /\ broker' = [broker EXCEPT !.now = @ + 1]
    /\ UNCHANGED <<call, stream, chunks, messages, parser, pulled, pcMain, observations, originals,
                   task_names, futures, run, returned>>

NextBroker == Publish \/ Deliver \/ Subscribe \/ Unsubscribe \/ Tick

SpecBroker == InitBroker /\ [][NextBroker]_vars

\* the publish calls the sender of call k has made before call k in the
\* second of call k; the calls of the broker's past were made no later than
\* second 0
PublishedInSecond(k) ==
    Cardinality({j \in 1 .. (k - 1) :
                    /\ broker.calls[j].message.sender_id = broker.calls[k].message.sender_id
                    /\ broker.calls[j].at = broker.calls[k].at})
        + (IF broker.calls[k].at = 0
           THEN broker.before[broker.calls[k].message.sender_id] ELSE 0)

\* C37: a publish is refused by the rate limit only when its sender has
\* already published max_rate messages within the current second, and a
\* sender that was refused is not refused in a later second
C37_RateLimitPerSecond ==
    \A k \in 1 .. Len(broker.calls) :
        broker.calls[k].error = "Rate limit exceeded" =>
            /\ PublishedInSecond(k) >= max_rate
            /\ \A j \in (k + 1) .. Len(broker.calls) :
                   (/\ broker.calls[j].message.sender_id = broker.calls[k].message.sender_id
                    /\ broker.calls[j].at > broker.calls[k].at)
                       => broker.calls[j].error # "Rate limit exceeded"

\* the call k was refused by the rate limit or for its signature
Refused(k) == broker.calls[k].error \in {"Rate limit exceeded", "Invalid message signature"}

\* the messages of the history
Recordeds ==
    UNION {{broker.message_history[t][i].message_id :
                i \in 1 .. Len(broker.message_history[t])} : t \in MessageTypes}

\* C38: a publish that is refused by the rate limit or for its signature
\* raises ValueError to its caller, and its message is neither queued, nor
\* in the history, nor delivered to a subscriber
C38_RefusalRaisesValueError ==
    \A k \in 1 .. Len(broker.calls) :
        Refused(k) =>
            /\ broker.calls[k].pc = "ValueError"
            /\ \A e \in broker.message_queue : e.message.message_id # k
            /\ k \notin Recordeds
            /\ \A d \in 1 .. Len(broker.delivered) : broker.delivered[d].message_id # k

\* the call k has returned and its message was accepted and had not expired
AcceptedUnexpired(k) ==
    /\ broker.calls[k].pc = "returned"
    /\ broker.calls[k].error = ""
    /\ ~((broker.calls[k].at - broker.calls[k].message.timestamp) > broker.calls[k].message.ttl)

\* C40: a callback is called with a message only if it subscribed to the
\* topic the message was published to before the publish and had not
\* unsubscribed before it, and a callback that has subscribed to topic T and
\* has not unsubscribed has been called with every accepted, unexpired
\* message published to T since, once the publish has returned
C40_TopicRouting ==
    /\ \A d \in 1 .. Len(broker.delivered) :
        \E h \in 1 .. Len(broker.handles) :
            /\ broker.handles[h].callback = broker.delivered[d].callback
            /\ broker.handles[h].topic = broker.calls[broker.delivered[d].message_id].topic
            /\ broker.handles[h].since < broker.delivered[d].message_id
            /\ broker.handles[h].until = -1
                   \/ broker.delivered[d].message_id <= broker.handles[h].until
    /\ \A k \in 1 .. Len(broker.calls) :
        AcceptedUnexpired(k) =>
            \A h \in 1 .. Len(broker.handles) :
                (/\ broker.handles[h].topic = broker.calls[k].topic
                 /\ broker.handles[h].since < k
                 /\ broker.handles[h].until = -1)
                    => \E d \in 1 .. Len(broker.delivered) :
                           /\ broker.delivered[d].callback = broker.handles[h].callback
                           /\ broker.delivered[d].message_id = k

====
